---- MODULE Spec2Model ----
(***************************************************************************)
(* Model of the slot based HDL co-simulation scheduler                     *)
(* (pycocotb/hdlSimulator.py, pycocotb/simCalendar.py).                    *)
(*                                                                         *)
(* HdlSimulator.run is unrolled into one action per step of its loop; a    *)
(* cooperative process is a generator whose next yielded value is chosen   *)
(* nondeterministically.  The triggers (pycocotb/triggers.py) and the RTL  *)
(* back-end are modelled from the specification text.                      *)
(***************************************************************************)
EXTENDS Integers, Sequences, FiniteSets, TLC

\* ------------------------------------------------------------------ bounds
MaxTime == 2
MaxProcs == 2
MaxEvalIter == 1

\* ------------------------------------------------------------ basic values
Times == 0 .. MaxTime

\* The items of the lists are generators.  The next value of the generator of
\* a user process is unconstrained, so the generators of user processes are
\* interchangeable: an item records its kind and, for a process suspended by
\* a Timer, the time it asked to be resumed at (-1 for the other items).
Item(id, t) == [id |-> id, t |-> t]

\* the generator of a user process
Proc == Item("proc", -1)

\* the generator of a user process suspended until t
TimerProc(t) == Item("proc", t)

\* raise_StopSimulation(sim)
Raiser == Item("raiser", -1)

\* no generator is running
NoProc == "none"

\* the Event E of a test bench as an item of a list
EventItem == Item("E", -1)

\* isinstance(ev, Event)
IsEvent(item) == item.id = "E"

Phases == <<"timeslot_begin", "write_only", "comb_read",
            "comb_stable", "mem_stable", "timeslot_end">>

PhaseNames == {Phases[i] : i \in 1 .. Len(Phases)}

PhaseIdx(ph) == CHOOSE i \in 1 .. Len(Phases) : Phases[i] = ph

\* a phase queue is None, the DONE sentinel or a python list
None == [k |-> "None", q |-> <<>>]
DONE == [k |-> "DONE", q |-> <<>>]
List(s) == [k |-> "list", q |-> s]

SimTimeSlot == [timeslot_begin |-> None, write_only |-> None,
                comb_read |-> None, comb_stable |-> None,
                mem_stable |-> None, timeslot_end |-> None]

NoEv == [k |-> "none", a |-> 0]
NoExc == [k |-> "none", by |-> "none"]
Exc(kind, who) == [k |-> kind, by |-> who]

COMB_UPDATE_DONE == "COMB_UPDATE_DONE"
END_OF_STEP == "END_OF_STEP"

VARIABLES
    now,          \* HdlSimulator.now
    calendar,     \* HdlSimulator._events : time -> SimTimeSlot
    cur,          \* HdlSimulator._current_time_slot
    curList,      \* HdlSimulator._current_event_list: "None" or the phase of cur it aliases
    pc,           \* position of the control flow inside run()
    idx,          \* position of the "for" loop over pending_event_list
    running,      \* generator executed by _run_process
    ev,           \* the last value the generator run last produced
    rtl,          \* the RTL back-end
    until,        \* argument of run()
    first_run,    \* local of run()
    ret,          \* locals s and ret of run(): the status of the last eval()
    evalIter,     \* eval() calls of the running evaluation loop
    exc,          \* exception in flight / of the last run
    result,       \* how the last call of run() ended
    runNo,        \* calls of run(): 0 none, 1 the first one, 2 a later one
    runStart,     \* local "now" of run() at its entry
    first_instant,\* no slot was popped in this run yet
    lastWake,     \* phase of the last wake-up of the instant
    env           \* the test bench: the agents, their signals and the Events

\* the simulator and the back-end
simVars == <<now, calendar, cur, curList, pc, idx, running, ev, rtl, until,
             first_run, ret, evalIter, exc, result, runNo, runStart,
             first_instant, lastWake>>

vars == <<now, calendar, cur, curList, pc, idx, running, ev, rtl, until, first_run, ret, evalIter, exc, result, runNo,
          runStart, first_instant, lastWake, env>>

\* ------------------------------------------------------------- SimCalendar
\* SimCalendar.push: SortedDict.__setitem__, replaces the value of the key
push(cal, time, value) == (time :> value) @@ cal

MinKey(cal) == CHOOSE t \in DOMAIN cal : \A u \in DOMAIN cal : t <= u

\* SimCalendar.pop: SortedDict.popitem(0)
popKey(cal) == MinKey(cal)

\* faulty variant of the calendar: pop peeks, the slot stays in the calendar
popRest_peek(cal) == cal

\* the calendar after SimCalendar.pop
popRest(cal) == [t \in (DOMAIN cal) \ {popKey(cal)} |-> cal[t]]

EmptyCalendar == [t \in {} |-> SimTimeSlot]

\* ------------------------------------------------------------ the back-end
\* ro: read_only_not_write_only; pending: pending_event_list; fin: the calls
\* of finalize() in this call of run(); fresh: eval() was called after the
\* last reset_eval(); dirty: a signal was written in this call of run() and
\* eval() was not called since
RtlInit == [ro |-> FALSE, pending |-> <<>>, time |-> 0, fin |-> 0,
            fresh |-> FALSE, dirty |-> FALSE]

\* callbacks which an eval() may leave in pending_event_list
PendingChoices == {<<>>, <<Proc>>}

RECURSIVE Count(_)
\* the generators of user processes in a list
Count(q) == IF q = <<>> THEN 0
            ELSE (IF Head(q).id = "proc" THEN 1 ELSE 0) + Count(Tail(q))

SlotCount(slot) == Count(slot.timeslot_begin.q) + Count(slot.write_only.q)
                   + Count(slot.comb_read.q) + Count(slot.comb_stable.q)
                   + Count(slot.mem_stable.q) + Count(slot.timeslot_end.q)

RECURSIVE CalendarCount(_)
CalendarCount(cal) ==
    IF DOMAIN cal = {} THEN 0
    ELSE SlotCount(cal[MinKey(cal)])
         + CalendarCount([t \in (DOMAIN cal) \ {MinKey(cal)} |-> cal[t]])

\* the generators of user processes which are still to be run
LiveCount == CalendarCount(calendar)
             + (IF pc \in {"idle", "pop", "exit"} THEN 0 ELSE SlotCount(cur))
             + Count(SubSeq(rtl.pending, idx + 1, Len(rtl.pending)))
             + (IF running = "proc" THEN 1 ELSE 0)

\* the model has room for n more generators
CanSpawn(n) == LiveCount + n <= MaxProcs

\* ------------------------------------------------------------------- Init
\* the last instant of the model: the one a test bench runs until, MaxTime
\* without one
Horizon == IF "horizon" \in DOMAIN env THEN env.horizon ELSE MaxTime

\* a test bench without agents and Events: the processes are the generators
\* of the extraProcesses argument, whose yields are unconstrained;
\* firing: the waiters of the Event which _run_event_list iterates
NoEnv == [scn |-> "none", firing |-> <<>>]

\* HdlSimulator.__init__, with the test bench e
InitWith(e) ==
    /\ now = 0
    /\ calendar = EmptyCalendar
    /\ cur = SimTimeSlot
    /\ curList = "None"
    /\ pc = "idle"
    /\ idx = 0
    /\ running = NoProc
    /\ ev = NoEv
    /\ rtl = RtlInit
    /\ until = 0
    /\ first_run = FALSE
    /\ ret = "none"
    /\ evalIter = 0
    /\ exc = NoExc
    /\ result = "none"
    /\ runNo = 0
    /\ runStart = 0
    /\ first_instant = TRUE
    /\ lastWake = "none"
    /\ env = e

Init == InitWith(NoEnv)

\* ------------------------------------------------------------------ run()
\* extraProcesses of run(): n generators
ExtraProcesses(n) == [i \in 1 .. n |-> Proc]

\* run(), line 171: assert until >= self.now
UntilAccepted(u, n) == u >= n

\* faulty variant of run(): the raiser is put one time unit late
EndTime_late(n, u) == n + u + 1

\* run(), line 186: time of the slot of the StopSimulation raiser
EndTime(n, u) == n + u

\* run(), lines 176-180: the slot pushed at "now"
BootSlot(extra) == [SimTimeSlot EXCEPT !.write_only = List(extra)]

\* faulty variant of run(): the end slot has no raiser
EndSlot_empty == [SimTimeSlot EXCEPT !.write_only = List(<<>>)]

\* run(), lines 184-185: the slot with the StopSimulation raiser
EndSlot == [SimTimeSlot EXCEPT !.write_only = List(<<Raiser>>)]

\* run(), lines 171-191: entry of run(until, extraProcesses)
CallRun(u, extra) ==
    /\ pc = "idle"
    /\ result # "raised"
    /\ CanSpawn(Count(extra))
    /\ (UntilAccepted(u, now) /\ u # now) => now + u <= Horizon
    /\ runNo' = IF runNo = 0 THEN 1 ELSE 2
    /\ until' = u
    /\ runStart' = now
    /\ rtl' = [rtl EXCEPT !.fin = 0, !.dirty = FALSE]
    /\ first_instant' = TRUE
    /\ IF ~UntilAccepted(u, now)
       THEN /\ exc' = Exc("AssertionError:until", "run")
            /\ result' = "raised"
            /\ UNCHANGED <<calendar, pc>>
       ELSE IF u = now
       THEN /\ exc' = NoExc
            /\ result' = "returned"
            /\ UNCHANGED <<calendar, pc>>
       ELSE /\ exc' = NoExc
            /\ result' = "none"
            /\ calendar' = push(push(calendar, now, BootSlot(extra)),
                                EndTime(now, u), EndSlot)
            /\ pc' = "pop"
    /\ ev' = NoEv
    /\ UNCHANGED <<now, cur, curList, idx, running, first_run,
                   ret, evalIter, lastWake>>
    /\ UNCHANGED env

\* run(), lines 195-198: next_time_slot(), advance of the time
PopSlot ==
    /\ pc = "pop"
    /\ IF DOMAIN calendar = {}
       THEN /\ exc' = Exc("KeyError", "run")
            /\ pc' = "exit"
            /\ UNCHANGED <<now, calendar, cur, rtl, first_instant, lastWake>>
       ELSE /\ calendar' = popRest(calendar)
            /\ cur' = calendar[popKey(calendar)]
            /\ IF popKey(calendar) >= now
               THEN /\ now' = popKey(calendar)
                    /\ rtl' = [rtl EXCEPT !.time = popKey(calendar)]
                    /\ pc' = "timeslot_begin"
                    /\ first_instant' = FALSE
                    /\ lastWake' = "none"
                    /\ exc' = exc
               ELSE /\ exc' = Exc("AssertionError:time", "run")
                    /\ pc' = "exit"
                    /\ UNCHANGED <<now, rtl, first_instant, lastWake>>
    /\ idx' = 0
    /\ ev' = NoEv
    /\ UNCHANGED <<curList, running, until, first_run,
                   ret, evalIter, result, runNo, runStart>>
    /\ UNCHANGED env

\* ------------------------------------------------------ _run_event_list
IsList(l) == l.k = "list"

\* faulty variant of run(): the loop over write_only and comb_read has one
\* pass only, "while first_run"
Truthy_never(l) == FALSE

\* python truth value of a phase queue (None and [] are false)
Truthy(l) == l.k = "DONE" \/ (l.k = "list" /\ l.q # <<>>)

\* faulty variant of run(): the comb_stable list is never run
Drained_stable(ph) == ph = "comb_stable" \/ ~IsList(cur[ph]) \/ cur[ph].q = <<>>

\* the "for" loop over a list is at its end; the model drops an item of the
\* list when the loop reaches it: the items behind the loop are not read again
Drained(ph) == ~IsList(cur[ph]) \/ cur[ph].q = <<>>

\* no generator is run and no Event of the list is iterated
NoOneRuns == running = NoProc /\ env.firing = <<>>

\* faulty variant of _run_event_list: "events.pop()", the last item of the
\* list is taken
RunEventListNext_last(ph) ==
    /\ pc = ph
    /\ NoOneRuns
    /\ ~Drained(ph)
    /\ curList' = ph
    /\ cur' = [cur EXCEPT ![ph] = List(SubSeq(cur[ph].q, 1, Len(cur[ph].q) - 1))]
    /\ running' = cur[ph].q[Len(cur[ph].q)].id
    /\ lastWake' = ph
    /\ ev' = NoEv
    /\ UNCHANGED <<now, calendar, idx, pc, rtl, until,
                   first_run, ret, evalIter, exc, result, runNo, runStart,
                   first_instant>>
    /\ UNCHANGED env

\* _run_event_list, lines 151-159: the next item of the drained list
RunEventListNext(ph) ==
    /\ pc = ph
    /\ NoOneRuns
    /\ ~Drained(ph)
    /\ ~IsEvent(Head(cur[ph].q))
    /\ curList' = ph
    /\ cur' = [cur EXCEPT ![ph] = List(Tail(cur[ph].q))]
    /\ running' = Head(cur[ph].q).id
    /\ lastWake' = ph
    /\ ev' = NoEv
    /\ UNCHANGED <<now, calendar, idx, pc, rtl, until,
                   first_run, ret, evalIter, exc, result, runNo, runStart,
                   first_instant>>
    /\ UNCHANGED env

\* _run_event_list, lines 153-156: the next item of the drained list is an
\* Event, "for p in ev" takes its waiters; the Event is left without waiters
RunEventListEvent(ph) ==
    /\ pc = ph
    /\ NoOneRuns
    /\ ~Drained(ph)
    /\ IsEvent(Head(cur[ph].q))
    /\ curList' = ph
    /\ cur' = [cur EXCEPT ![ph] = List(Tail(cur[ph].q))]
    /\ env' = [env EXCEPT !.firing = env.waiters, !.waiters = <<>>]
    /\ ev' = NoEv
    /\ UNCHANGED <<now, calendar, idx, pc, running, rtl, until,
                   first_run, ret, evalIter, exc, result, runNo, runStart,
                   first_instant, lastWake>>

\* faulty variant of _run_event_list: the waiters of an Event are run from
\* the last one to the first one
RunEventWaiter_reversed ==
    /\ pc \in PhaseNames
    /\ running = NoProc
    /\ env.firing # <<>>
    /\ running' = env.firing[Len(env.firing)]
    /\ env' = [env EXCEPT !.firing = SubSeq(env.firing, 1, Len(env.firing) - 1)]
    /\ lastWake' = pc
    /\ ev' = NoEv
    /\ UNCHANGED <<now, calendar, cur, curList, idx, pc, rtl, until,
                   first_run, ret, evalIter, exc, result, runNo, runStart,
                   first_instant>>

\* _run_event_list, lines 155-156: the next waiter of the iterated Event
RunEventWaiter ==
    /\ pc \in PhaseNames
    /\ running = NoProc
    /\ env.firing # <<>>
    /\ running' = Head(env.firing)
    /\ env' = [env EXCEPT !.firing = Tail(env.firing)]
    /\ lastWake' = pc
    /\ ev' = NoEv
    /\ UNCHANGED <<now, calendar, cur, curList, idx, pc, rtl, until,
                   first_run, ret, evalIter, exc, result, runNo, runStart,
                   first_instant>>

\* faulty variant of run(): the instant is left after mem_stable, timeslot_end
\* is not drained
NextPc_noend(ph) == IF ph = "timeslot_begin" THEN "write_only"
                    ELSE IF ph = "write_only" THEN "eval_comb"
                    ELSE IF ph = "comb_stable" THEN "eval_mem"
                    ELSE "pop"

\* faulty variant of run(): no eval() after the write_only pass, comb_read
\* is drained at once
NextPc_noeval(ph) == IF ph = "timeslot_begin" THEN "write_only"
                     ELSE IF ph = "write_only" THEN "comb_read"
                     ELSE IF ph = "comb_stable" THEN "eval_mem"
                     ELSE IF ph = "mem_stable" THEN "timeslot_end"
                     ELSE "pop"

\* faulty variant of run(): timeslot_end is drained before the evaluation
\* loop of mem_stable
NextPc_swapped(ph) == IF ph = "timeslot_begin" THEN "write_only"
                      ELSE IF ph = "write_only" THEN "eval_comb"
                      ELSE IF ph = "comb_stable" THEN "timeslot_end"
                      ELSE IF ph = "timeslot_end" THEN "eval_mem"
                      ELSE "pop"

\* run(), lines 201-258: where the control goes after the list of a phase was
\* drained (comb_read: lines 221-228, see AfterCombRead)
NextPc(ph) == IF ph = "timeslot_begin" THEN "write_only"
              ELSE IF ph = "write_only" THEN "eval_comb"
              ELSE IF ph = "comb_stable" THEN "eval_mem"
              ELSE IF ph = "mem_stable" THEN "timeslot_end"
              ELSE "pop"

\* run(), lines 201-205: timeslot_begin is drained
AfterTimeslotBegin ==
    /\ pc = "timeslot_begin"
    /\ NoOneRuns
    /\ Drained("timeslot_begin")
    /\ curList' = "None"
    /\ cur' = [cur EXCEPT !.timeslot_begin = DONE]
    /\ first_run' = TRUE
    /\ pc' = NextPc("timeslot_begin")
    /\ idx' = 0
    /\ ev' = NoEv
    /\ UNCHANGED <<now, calendar, running, rtl, until,
                   ret, evalIter, exc, result, runNo, runStart,
                   first_instant, lastWake>>
    /\ UNCHANGED env

\* run(), lines 207-208: a pass over write_only is drained
AfterWriteOnly ==
    /\ pc = "write_only"
    /\ NoOneRuns
    /\ Drained("write_only")
    /\ curList' = "None"
    /\ cur' = [cur EXCEPT !.write_only = None]
    /\ pc' = NextPc("write_only")
    /\ idx' = 0
    /\ ev' = NoEv
    /\ UNCHANGED <<now, calendar, running, rtl, until,
                   first_run, ret, evalIter, exc, result, runNo, runStart,
                   first_instant, lastWake>>
    /\ UNCHANGED env

\* back-end eval(): the status it reports after a write_only pass
EvalStatuses == {COMB_UPDATE_DONE, END_OF_STEP}

\* the status of the eval() after a write_only pass: any status without a
\* test bench, COMB_UPDATE_DONE from the back-end of a test bench
Statuses == IF env.scn = "none" THEN EvalStatuses ELSE {COMB_UPDATE_DONE}

\* the callbacks of the signals whose value changed since the last eval():
\* the back-end of a test bench puts the callbacks registered on the clock
\* signal (env.watch) in pending_event_list in the eval() which follows the
\* write
ChangeCallbacks == IF "clk" \in DOMAIN env /\ env.clk # env.seen
                   THEN env.watch ELSE <<>>

\* what an eval() may append to pending_event_list: anything without a test
\* bench; pass is "comb", "stable" or "mem"
Pending(pass) == IF env.scn = "none" THEN PendingChoices
                 ELSE IF pass = "comb" THEN {ChangeCallbacks}
                 ELSE {<<>>}

\* the test bench after an eval(): the back-end has seen the written values
SeenByEval(pass) == IF pass = "comb" /\ "clk" \in DOMAIN env
                    THEN [env EXCEPT !.seen = env.clk, !.vis = env.sig]
                    ELSE env

\* run(), lines 209-215: eval(), check of its status, comb_read is made
\* the current list
EvalComb ==
    /\ pc = "eval_comb"
    /\ \E s \in Statuses, P \in Pending("comb") :
         /\ CanSpawn(Count(P))
         /\ rtl' = [rtl EXCEPT !.pending = rtl.pending \o P, !.fresh = TRUE,
                               !.dirty = FALSE]
         /\ ret' = s
         /\ IF s = COMB_UPDATE_DONE
            THEN /\ cur' = IF cur.comb_read.k = "None"
                           THEN [cur EXCEPT !.comb_read = List(<<>>)]
                           ELSE cur
                 /\ curList' = "comb_read"
                 /\ pc' = "cb_comb_read"
                 /\ exc' = exc
            ELSE /\ exc' = Exc("AssertionError:status", "run")
                 /\ pc' = "exit"
                 /\ UNCHANGED <<cur, curList>>
    /\ idx' = 0
    /\ ev' = NoEv
    /\ UNCHANGED <<now, calendar, running, until, first_run,
                   evalIter, result, runNo, runStart, first_instant,
                   lastWake>>
    /\ env' = SeenByEval("comb")

\* faulty variant of run(): write_only and comb_read are not sealed
SealWriteRead_skip(slot) == slot

\* run(), lines 227-228
SealWriteRead(slot) == [slot EXCEPT !.write_only = DONE, !.comb_read = DONE]

\* run(), lines 218-228: a pass over comb_read is drained; another pass
\* of the loop when a write is pending, else both phases are sealed
AfterCombRead ==
    /\ pc = "comb_read"
    /\ NoOneRuns
    /\ Drained("comb_read")
    /\ curList' = "None"
    /\ rtl' = IF cur.write_only.k # "None"
              THEN [rtl EXCEPT !.fresh = FALSE]
              ELSE rtl
    /\ first_run' = FALSE
    /\ IF Truthy(cur.write_only)
       THEN /\ cur' = [cur EXCEPT !.comb_read = None]
            /\ pc' = "write_only"
       ELSE /\ cur' = SealWriteRead([cur EXCEPT !.comb_read = None])
            /\ pc' = "eval_stable"
    /\ idx' = 0
    /\ evalIter' = 0
    /\ ev' = NoEv
    /\ UNCHANGED <<now, calendar, running, until, ret,
                   exc, result, runNo, runStart, first_instant, lastWake>>
    /\ UNCHANGED env

\* back-end eval() of the loop before comb_stable: the values
\* read_only_not_write_only may have after the call
EvalStableOutcomes(iter) == IF iter + 1 >= MaxEvalIter THEN {TRUE}
                            ELSE BOOLEAN

\* back-end eval() of the loop before mem_stable: the statuses it may return
EvalMemOutcomes(iter) == IF iter + 1 >= MaxEvalIter THEN {END_OF_STEP}
                         ELSE EvalStatuses

\* the value of a phase queue as _current_event_list
AliasOf(slot, ph) == IF IsList(slot[ph]) THEN ph ELSE "None"

\* run(), lines 231-240: evaluation loop before comb_stable
EvalStable ==
    /\ pc = "eval_stable"
    /\ idx' = 0
    /\ IF rtl.ro
       THEN /\ pc' = "comb_stable"
            /\ UNCHANGED <<rtl, cur, curList, evalIter>>
       ELSE \E r \in EvalStableOutcomes(evalIter),
               P \in Pending("stable") :
              /\ CanSpawn(Count(P))
              /\ rtl' = [rtl EXCEPT !.ro = r, !.pending = rtl.pending \o P,
                                    !.dirty = FALSE]
              /\ evalIter' = evalIter + 1
              /\ IF rtl.pending \o P # <<>>
                 THEN /\ cur' = IF cur.comb_read.k = "None"
                                THEN [cur EXCEPT !.comb_stable = List(<<>>)]
                                ELSE cur
                      /\ curList' = IF cur.comb_read.k = "None"
                                    THEN "comb_stable"
                                    ELSE AliasOf(cur, "comb_stable")
                      /\ pc' = "cb_comb_stable"
                 ELSE UNCHANGED <<cur, curList, pc>>
    /\ ev' = NoEv
    /\ UNCHANGED <<now, calendar, running, until, first_run, ret,
                   exc, result, runNo, runStart, first_instant, lastWake>>
    /\ env' = IF rtl.ro THEN env ELSE SeenByEval("stable")

\* run(), lines 240-241: comb_stable is drained
AfterCombStable ==
    /\ pc = "comb_stable"
    /\ NoOneRuns
    /\ Drained("comb_stable")
    /\ curList' = "None"
    /\ cur' = [cur EXCEPT !.comb_stable = DONE]
    /\ pc' = NextPc("comb_stable")
    /\ idx' = 0
    /\ evalIter' = 0
    /\ ev' = NoEv
    /\ UNCHANGED <<now, calendar, running, rtl, until,
                   first_run, ret, exc, result, runNo, runStart,
                   first_instant, lastWake>>
    /\ UNCHANGED env

\* run(), lines 243-252: evaluation loop before mem_stable
EvalMem ==
    /\ pc = "eval_mem"
    /\ idx' = 0
    /\ \E r \in EvalMemOutcomes(evalIter),
          P \in Pending("mem") :
         /\ CanSpawn(Count(P))
         /\ ret' = r
         /\ rtl' = [rtl EXCEPT !.pending = rtl.pending \o P,
                               !.dirty = FALSE]
         /\ evalIter' = evalIter + 1
         /\ IF rtl.pending \o P # <<>>
            THEN /\ cur' = IF cur.mem_stable.k = "None"
                           THEN [cur EXCEPT !.mem_stable = List(<<>>)]
                           ELSE cur
                 /\ curList' = "mem_stable"
                 /\ pc' = "cb_mem_stable"
            ELSE /\ pc' = IF r = END_OF_STEP THEN "mem_stable"
                          ELSE "eval_mem"
                 /\ UNCHANGED <<cur, curList>>
    /\ ev' = NoEv
    /\ UNCHANGED <<now, calendar, running, until, first_run, exc,
                   result, runNo, runStart, first_instant, lastWake>>
    /\ env' = SeenByEval("mem")

\* run(), lines 253-254: mem_stable is drained
AfterMemStable ==
    /\ pc = "mem_stable"
    /\ NoOneRuns
    /\ Drained("mem_stable")
    /\ curList' = "None"
    /\ cur' = [cur EXCEPT !.mem_stable = DONE]
    /\ pc' = NextPc("mem_stable")
    /\ idx' = 0
    /\ ev' = NoEv
    /\ UNCHANGED <<now, calendar, running, rtl, until,
                   first_run, ret, evalIter, exc, result, runNo, runStart,
                   first_instant, lastWake>>
    /\ UNCHANGED env

\* run(), lines 256-258: timeslot_end is drained, set_write_only()
AfterTimeslotEnd ==
    /\ pc = "timeslot_end"
    /\ NoOneRuns
    /\ Drained("timeslot_end")
    /\ curList' = "None"
    /\ cur' = [cur EXCEPT !.timeslot_end = DONE]
    /\ rtl' = [rtl EXCEPT !.ro = FALSE]
    /\ pc' = NextPc("timeslot_end")
    /\ idx' = 0
    /\ ev' = NoEv
    /\ UNCHANGED <<now, calendar, running, until,
                   first_run, ret, evalIter, exc, result, runNo, runStart,
                   first_instant, lastWake>>
    /\ UNCHANGED env

\* ----------------------------------------------------- _eval_rtl_events
CallbackPcs == {"cb_comb_read", "cb_comb_stable", "cb_mem_stable"}

\* the phase in which the callbacks of an evaluation pass are run
CbPhase(c) == IF c = "cb_comb_read" THEN "comb_read"
              ELSE IF c = "cb_comb_stable" THEN "comb_stable"
              ELSE "mem_stable"

\* _eval_rtl_events, lines 140-144: the next pending callback
EvalRtlEventsNext ==
    /\ pc \in CallbackPcs
    /\ NoOneRuns
    /\ idx < Len(rtl.pending)
    /\ idx' = idx + 1
    /\ running' = rtl.pending[idx + 1].id
    /\ lastWake' = CbPhase(pc)
    /\ ev' = NoEv
    /\ UNCHANGED <<now, calendar, cur, curList, pc, rtl, until,
                   first_run, ret, evalIter, exc, result, runNo, runStart,
                   first_instant>>
    /\ UNCHANGED env

\* _eval_rtl_events, line 145 and the return into run()
EvalRtlEventsEnd ==
    /\ pc \in CallbackPcs
    /\ NoOneRuns
    /\ idx >= Len(rtl.pending)
    /\ rtl' = [rtl EXCEPT !.pending = <<>>]
    /\ idx' = 0
    /\ pc' = IF pc = "cb_comb_read" THEN "comb_read"
             ELSE IF pc = "cb_comb_stable" THEN "eval_stable"
             ELSE IF ret = END_OF_STEP THEN "mem_stable"
             ELSE "eval_mem"
    /\ ev' = NoEv
    /\ UNCHANGED <<now, calendar, cur, curList, running, until, first_run, ret, evalIter, exc, result, runNo,
                   runStart, first_instant, lastWake>>
    /\ UNCHANGED env

\* ----------------------------------------------------------- the triggers
WaitKinds == {"WaitWriteOnly", "WaitCombRead", "WaitCombStable",
              "WaitTimeslotEnd"}

\* the phase a phase-wait trigger names
WaitTarget(kind) == IF kind = "WaitWriteOnly" THEN "write_only"
                    ELSE IF kind = "WaitCombRead" THEN "comb_read"
                    ELSE IF kind = "WaitCombStable" THEN "comb_stable"
                    ELSE "timeslot_end"

\* list.append
Append_(l, item) == List(l.q \o <<item>>)

\* SimTimeSlot.enqueue: the list of the phase is allocated on first append
Enqueue(slot, ph, item) ==
    [slot EXCEPT ![ph] = IF slot[ph].k = "None" THEN List(<<item>>)
                         ELSE Append_(slot[ph], item)]

InRun == pc \notin {"idle", "pop", "exit"}

Ev(kind, arg) == [k |-> kind, a |-> arg]

Running == InRun /\ running = "proc"

\* _run_process, line 115: the generator of a user process returns
GenReturn ==
    /\ ev' = Ev("return", 0)
    /\ running' = NoProc
    /\ UNCHANGED <<now, calendar, cur, curList, pc, idx, rtl, until,
                   first_run, ret, evalIter, exc, result, runNo, runStart,
                   first_instant, lastWake>>

\* the generator of a user process returns
ProcReturn ==
    /\ Running
    /\ GenReturn
    /\ UNCHANGED env

\* _run_process, line 115: the generator of a user process raises
\* StopSimulation
ProcStop ==
    /\ Running
    /\ ev' = Ev("raise", 0)
    /\ exc' = Exc("StopSimulation", "proc")
    /\ pc' = "exit"
    /\ UNCHANGED <<now, calendar, cur, curList, idx, running, rtl, until,
                   first_run, ret, evalIter, result, runNo, runStart,
                   first_instant, lastWake>>
    /\ UNCHANGED env

\* raise_StopSimulation: the process of the end slot
RaiserNext ==
    /\ InRun
    /\ running = "raiser"
    /\ ev' = Ev("raise", 0)
    /\ exc' = Exc("StopSimulation", "raiser")
    /\ pc' = "exit"
    /\ UNCHANGED <<now, calendar, cur, curList, idx, running, rtl,
                   until, first_run, ret, evalIter, result, runNo, runStart,
                   first_instant, lastWake>>
    /\ UNCHANGED env

\* faulty variant of _schedule_proc: a new slot is pushed every time
ScheduleLater_fresh(cal, time, item) ==
    push(cal, time, [SimTimeSlot EXCEPT !.write_only = List(<<item>>)])

\* _schedule_proc, lines 276-283: the calendar after ev is put in the
\* write_only list of the slot at time
ScheduleLater(cal, time, item) ==
    LET ts == IF time \in DOMAIN cal THEN cal[time] ELSE SimTimeSlot
        ts2 == IF ts.write_only.k = "None"
               THEN [ts EXCEPT !.write_only = List(<<>>)] ELSE ts
    IN push(cal, time, [ts2 EXCEPT !.write_only = Append_(ts2.write_only, item)])

\* _schedule_proc_now, line 269, and _schedule_proc, line 274:
\* self._current_event_list.append(ev); None has no append
AppendCurrent(item) ==
    IF curList = "None"
    THEN /\ exc' = Exc("AttributeError", "proc")
         /\ pc' = "exit"
         /\ UNCHANGED cur
    ELSE /\ cur' = [cur EXCEPT ![curList] = Append_(cur[curList], item)]
         /\ UNCHANGED <<exc, pc>>

\* the generator yields Timer(d): Timer.applyProcess with _schedule_proc,
\* lines 271-283; the process is suspended (_run_process, lines 118-119)
TimerApply(d) ==
    /\ ev' = Ev("Timer", d)
    /\ IF now = now + d
       THEN /\ AppendCurrent(Item(running, -1))
            /\ UNCHANGED calendar
       ELSE /\ calendar' = ScheduleLater(calendar, now + d,
                                         Item(running, now + d))
            /\ UNCHANGED <<cur, exc, pc>>
    /\ running' = IF pc' = "exit" THEN running ELSE NoProc
    /\ UNCHANGED <<now, curList, idx, rtl, until, first_run, ret,
                   evalIter, result, runNo, runStart, first_instant,
                   lastWake>>

\* a user process yields Timer(d)
YieldTimer(d) ==
    /\ Running
    /\ now + d <= MaxTime
    /\ TimerApply(d)
    /\ UNCHANGED env

\* the generator yields WaitWriteOnly, WaitCombRead, WaitCombStable or
\* WaitTimeslotEnd: its applyProcess; the process is suspended unless
\* write_only is the list which is drained
WaitApply(kind) ==
    /\ ev' = Ev(kind, 0)
    /\ IF kind = "WaitWriteOnly" /\ curList = "write_only"
       THEN UNCHANGED <<running, cur, exc, pc>>
       ELSE IF cur[WaitTarget(kind)].k = "DONE"
       THEN /\ exc' = Exc("PhaseClosedError", "proc")
            /\ pc' = "exit"
            /\ UNCHANGED <<running, cur>>
       ELSE /\ cur' = Enqueue(cur, WaitTarget(kind), Item(running, -1))
            /\ running' = NoProc
            /\ UNCHANGED <<exc, pc>>
    /\ UNCHANGED <<now, calendar, curList, idx, rtl, until,
                   first_run, ret, evalIter, result, runNo, runStart,
                   first_instant, lastWake>>

\* a user process yields a phase-wait trigger
YieldWait(kind) ==
    /\ Running
    /\ WaitApply(kind)
    /\ UNCHANGED env

\* the generator writes a signal of the back-end between two yields; a
\* process writes after WaitWriteOnly, that is while write_only is drained
SignalWrite ==
    /\ rtl' = [rtl EXCEPT !.dirty = TRUE]
    /\ UNCHANGED <<now, calendar, cur, curList, pc, idx, running, ev, until,
                   first_run, ret, evalIter, exc, result, runNo, runStart,
                   first_instant, lastWake>>

\* a user process writes a signal
ProcWrite ==
    /\ Running
    /\ curList = "write_only"
    /\ SignalWrite
    /\ UNCHANGED env

\* faulty variant of _run_process: "break" after _schedule_proc_now, the
\* parent is left suspended
YieldChild_suspend ==
    /\ Running
    /\ CanSpawn(1)
    /\ ev' = Ev("Child", 0)
    /\ AppendCurrent(Proc)
    /\ running' = NoProc
    /\ UNCHANGED <<now, calendar, curList, idx, rtl, until,
                   first_run, ret, evalIter, result, runNo, runStart,
                   first_instant, lastWake>>
    /\ UNCHANGED env

\* the generator yields a generator, _run_process, lines 123-126:
\* the child is put in the current list, the parent runs on
SpawnChild(item) ==
    /\ ev' = Ev("Child", 0)
    /\ AppendCurrent(item)
    /\ UNCHANGED <<now, calendar, curList, idx, running, rtl, until,
                   first_run, ret, evalIter, result, runNo, runStart,
                   first_instant, lastWake>>

\* a user process yields a generator
YieldChild ==
    /\ Running
    /\ CanSpawn(1)
    /\ SpawnChild(Proc)
    /\ UNCHANGED env

\* the generator yields another value, _run_process, lines 127-128:
\* raise ValueError(ev)
YieldInvalid ==
    /\ Running
    /\ ev' = Ev("Invalid", 0)
    /\ exc' = Exc("ValueError", "proc")
    /\ pc' = "exit"
    /\ UNCHANGED <<now, calendar, cur, curList, idx, running, rtl,
                   until, first_run, ret, evalIter, result, runNo, runStart,
                   first_instant, lastWake>>
    /\ UNCHANGED env

\* faulty variant of run(): "except Exception: pass", every exception is
\* swallowed like StopSimulation
RunExit_swallow ==
    /\ pc = "exit"
    /\ rtl' = [rtl EXCEPT !.fin = rtl.fin + 1, !.ro = TRUE]
    /\ result' = "returned"
    /\ pc' = "idle"
    /\ running' = NoProc
    /\ ev' = NoEv
    /\ idx' = 0
    /\ first_run' = FALSE
    /\ ret' = "none"
    /\ evalIter' = 0
    /\ lastWake' = "none"
    /\ UNCHANGED <<now, calendar, cur, curList, until, exc, runNo, runStart,
                   first_instant>>
    /\ UNCHANGED env

\* faulty variant of run(): line 265 is missing, the flag of the back-end
\* is left as it was
RunExit_noflag ==
    /\ pc = "exit"
    /\ rtl' = [rtl EXCEPT !.fin = rtl.fin + 1]
    /\ result' = IF exc.k = "StopSimulation" THEN "returned" ELSE "raised"
    /\ pc' = "idle"
    /\ running' = NoProc
    /\ ev' = NoEv
    /\ idx' = 0
    /\ first_run' = FALSE
    /\ ret' = "none"
    /\ evalIter' = 0
    /\ lastWake' = "none"
    /\ UNCHANGED <<now, calendar, cur, curList, until, exc, runNo, runStart,
                   first_instant>>
    /\ UNCHANGED env

\* run(), lines 260-265: except StopSimumulation, finally, and the flag
\* set after a caught StopSimulation; the locals of run() are gone
RunExit ==
    /\ pc = "exit"
    /\ rtl' = [rtl EXCEPT !.fin = rtl.fin + 1,
                          !.ro = IF exc.k = "StopSimulation" THEN TRUE
                                 ELSE rtl.ro]
    /\ result' = IF exc.k = "StopSimulation" THEN "returned" ELSE "raised"
    /\ pc' = "idle"
    /\ running' = NoProc
    /\ ev' = NoEv
    /\ idx' = 0
    /\ first_run' = FALSE
    /\ ret' = "none"
    /\ evalIter' = 0
    /\ lastWake' = "none"
    /\ UNCHANGED <<now, calendar, cur, curList, until, exc, runNo, runStart,
                   first_instant>>
    /\ UNCHANGED env

\* ------------------------------------------------------------- the system
Untils == 0 .. MaxTime

Delays == 0 .. MaxTime

Next ==
    \/ \E u \in Untils, n \in 0 .. MaxProcs :
          CallRun(u, ExtraProcesses(n))
    \/ PopSlot
    \/ \E ph \in PhaseNames : RunEventListNext(ph)
    \/ AfterTimeslotBegin
    \/ AfterWriteOnly
    \/ EvalComb
    \/ AfterCombRead
    \/ EvalStable
    \/ AfterCombStable
    \/ EvalMem
    \/ AfterMemStable
    \/ AfterTimeslotEnd
    \/ EvalRtlEventsNext
    \/ EvalRtlEventsEnd
    \/ ProcReturn
    \/ ProcStop
    \/ RaiserNext
    \/ \E d \in Delays : YieldTimer(d)
    \/ \E kind \in WaitKinds : YieldWait(kind)
    \/ YieldChild
    \/ ProcWrite
    \/ YieldInvalid
    \/ RunExit

Spec == Init /\ [][Next]_vars

\* a step of run(): everything but a new call of run()
RunStep ==
    \/ PopSlot
    \/ \E ph \in PhaseNames : RunEventListNext(ph)
    \/ AfterTimeslotBegin
    \/ AfterWriteOnly
    \/ EvalComb
    \/ AfterCombRead
    \/ EvalStable
    \/ AfterCombStable
    \/ EvalMem
    \/ AfterMemStable
    \/ AfterTimeslotEnd
    \/ EvalRtlEventsNext
    \/ EvalRtlEventsEnd
    \/ ProcReturn
    \/ ProcStop
    \/ RaiserNext
    \/ \E d \in Delays : YieldTimer(d)
    \/ \E kind \in WaitKinds : YieldWait(kind)
    \/ YieldChild
    \/ ProcWrite
    \/ YieldInvalid
    \/ RunExit

\* run() is a single thread which is never suspended from outside: a call of
\* run() which can take a step takes one
FairSpec == Spec /\ WF_vars(RunStep)

\* ------------------------------------------------- test bench: one Event
\* Three processes A, B, C wait for the Event E; the process D fires it
\* while comb_stable is drained, and may fire it again in a later instant.
\* waiters: the waiter list of E; pos: the position of each generator;
\* log: the resumptions of the waiters; fired: the times of the calls of fire
MaxFires == 2

Waiters == {"A", "B", "C"}

EventBench == [scn |-> "event", firing |-> <<>>, waiters |-> <<>>,
               pos |-> [p \in Waiters \cup {"D"} |-> 0],
               log |-> <<>>, fired |-> <<>>]

InitEvent == InitWith(EventBench)

\* the generator p of the test bench is run
Named(p) == InRun /\ running = p

\* the generator p is at position n
At(p, n) == Named(p) /\ env.pos[p] = n

\* the test bench with the generator p moved to position n
Goto(p, n) == [env EXCEPT !.pos[p] = n]

\* sim.run(MaxTime, [A, B, C, D]) on the fresh simulator
EventRun ==
    /\ runNo = 0
    /\ CallRun(MaxTime, <<Item("A", -1), Item("B", -1), Item("C", -1),
                          Item("D", -1)>>)

\* _run_process, lines 120-122: the generator yields an Event, it is
\* suspended
EventWait ==
    /\ ev' = Ev("Event", 0)
    /\ running' = NoProc
    /\ UNCHANGED <<now, calendar, cur, curList, pc, idx, rtl, until,
                   first_run, ret, evalIter, exc, result, runNo, runStart,
                   first_instant, lastWake>>

\* a waiter: "yield E"; Event.applyProcess appends it to the waiter list
WaiterWait ==
    \E p \in Waiters :
       /\ At(p, 0)
       /\ EventWait
       /\ env' = [env EXCEPT !.waiters = Append(@, p), !.pos[p] = 1]

\* a waiter: it is resumed, notes the time and the phase, and returns
WaiterResumed ==
    \E p \in Waiters :
       /\ At(p, 1)
       /\ GenReturn
       /\ env' = [env EXCEPT !.log = Append(@, [p |-> p, t |-> now,
                                                ph |-> lastWake]),
                             !.pos[p] = 2]

\* D: "yield Timer(1)", it fires in a later instant
FirerDelay ==
    /\ At("D", 0)
    /\ now + 1 <= MaxTime
    /\ TimerApply(1)
    /\ UNCHANGED env

\* D: "yield WaitCombStable()"
FirerWaitStable ==
    /\ At("D", 0)
    /\ WaitApply("WaitCombStable")
    /\ env' = Goto("D", 1)

\* D: E is fired, the Event is put in the list which is drained
\* (_schedule_proc_now, lines 267-269)
FirerFire ==
    /\ At("D", 1)
    /\ AppendCurrent(EventItem)
    /\ env' = [env EXCEPT !.fired = Append(@, now), !.pos["D"] = 2]
    /\ UNCHANGED <<now, calendar, curList, idx, running, ev, rtl, until,
                   first_run, ret, evalIter, result, runNo, runStart,
                   first_instant, lastWake>>

\* D: "yield Timer(1)" after a fire, to fire once more
FirerAgain ==
    /\ At("D", 2)
    /\ Len(env.fired) < MaxFires
    /\ now + 1 <= MaxTime
    /\ TimerApply(1)
    /\ env' = Goto("D", 0)

\* D returns
FirerReturn ==
    /\ At("D", 2)
    /\ GenReturn
    /\ env' = Goto("D", 3)

NextEvent ==
    \/ EventRun
    \/ PopSlot
    \/ \E ph \in PhaseNames : RunEventListNext(ph)
    \/ \E ph \in PhaseNames : RunEventListEvent(ph)
    \/ RunEventWaiter
    \/ AfterTimeslotBegin
    \/ AfterWriteOnly
    \/ EvalComb
    \/ AfterCombRead
    \/ EvalStable
    \/ AfterCombStable
    \/ EvalMem
    \/ AfterMemStable
    \/ AfterTimeslotEnd
    \/ EvalRtlEventsEnd
    \/ RaiserNext
    \/ RunExit
    \/ WaiterWait
    \/ WaiterResumed
    \/ FirerDelay
    \/ FirerWaitStable
    \/ FirerFire
    \/ FirerAgain
    \/ FirerReturn

SpecEvent == InitEvent /\ [][NextEvent]_vars

\* --------------------------------------------- test bench: clocked agents
\* A ClockAgent drives the clock signal.  In the bench "clock" a second
\* ClockAgent monitors the signal through a CallbackLoop.
\* clk: the value written last; seen: the value after the last eval(), which
\* a read returns; watch: the callbacks registered on the clock signal;
\* writes: the writes of the driver; last, data: ClockAgent.last and .data
\* of the monitor; en: AgentBase._enabled of an agent; edge: the changes
\* the callback loop of the agent selects.  The values of a signal are "0",
\* "1" and "x" (None, not driven yet).
\* In the bench "handshake" a DataRdVldAgent drives and another one monitors
\* a ready/valid channel, both at the rising edge of the clock, and a
\* process of the test bench calls setEnable.
\* sig, vis: the values written to valid, ready and data, and the values
\* after the last eval(); dq, actualData, lastWritten, lastVld: data,
\* actualData, _lastWritten and _lastVld of the driver, doSend its local
\* variable; lastRd, readyConsumed, recv: _lastRd, _readyComnsummed and data
\* of the monitor.
\* want: the argument of the last setEnable call; cut: an instance of the
\* agent has returned at a check of _enabled; cbLog: the calls of the
\* callback of the agent at the edge it selects; toggles: the number of setEnable calls;
\* toggled: the agents setEnable was called for
period == 10

initWait == 0

RunUntil == 45

\* faulty variant of ClockAgent.driver: the whole period between two writes
halfPeriod_full == env.period

\* ClockAgent.driver: halfPeriod = self.period // 2
halfPeriod == env.period \div 2

\* the agents: K the monitoring ClockAgent, D and M the DataRdVldAgent
\* which drives and the one which monitors
Agents == {"K", "D", "M"}

\* the processes of an agent: the registration of the callback loop, its
\* callback and the instance of the wrapped generator function
PidOf ==
    [reg |-> [K |-> "regK", D |-> "regD", M |-> "regM"],
     cb |-> [K |-> "cbK", D |-> "cbD", M |-> "cbM"],
     inst |-> [K |-> "instK", D |-> "instD", M |-> "instM"]]

BenchPids ==
    {"drv", "ctl", "chk", "pull", "utx", "urx", "gl"}
        \cup {PidOf[k][a] : k \in {"reg", "cb", "inst"}, a \in Agents}

Bench(scn) ==
    [scn |-> scn, firing |-> <<>>, horizon |-> RunUntil, period |-> period,
     procs |-> IF scn = "clock"
               THEN <<Item("drv", -1), Item("regK", -1)>>
               ELSE <<Item("drv", -1), Item("regD", -1), Item("regM", -1),
                      Item("ctl", -1)>>,
     clk |-> "x", seen |-> "x", watch |-> <<>>,
     pos |-> [p \in BenchPids |-> 0],
     writes |-> <<>>, last |-> [t |-> -1, v |-> "x"], data |-> <<>>,
     en |-> [a \in Agents |-> TRUE],
     edge |-> [K |-> "any", D |-> "rising", M |-> "rising"],
     sig |-> [vld |-> "x", rd |-> "x", data |-> "x"],
     vis |-> [vld |-> "x", rd |-> "x", data |-> "x"],
     dq |-> <<"AA", "NOP", "55">>, actualData |-> "NOP",
     lastWritten |-> "None", lastVld |-> "None", doSend |-> FALSE,
     lastRd |-> "None", readyConsumed |-> TRUE, recv |-> <<>>,
     want |-> [a \in Agents |-> TRUE],
     cut |-> [a \in Agents |-> FALSE],
     cbLog |-> [a \in Agents |-> <<>>],
     toggles |-> 0, toggled |-> {}]

\* sim.run(RunUntil, extraProcesses) on the fresh simulator
BenchRun ==
    /\ runNo = 0
    /\ CallRun(env.horizon, env.procs)

\* the steps of run() between two generators
Scheduler ==
    \/ PopSlot
    \/ \E ph \in PhaseNames : RunEventListNext(ph)
    \/ AfterTimeslotBegin
    \/ AfterWriteOnly
    \/ EvalComb
    \/ AfterCombRead
    \/ EvalStable
    \/ AfterCombStable
    \/ EvalMem
    \/ AfterMemStable
    \/ AfterTimeslotEnd
    \/ EvalRtlEventsNext
    \/ EvalRtlEventsEnd
    \/ RaiserNext
    \/ RunExit

\* ClockAgent.driver: positions 0-2 are the lines 32-34, 3-8 the loop
ClkDriver ==
    \/ \E p \in {0, 4, 7} :
          /\ At("drv", p)
          /\ WaitApply("WaitWriteOnly")
          /\ env' = Goto("drv", p + 1)
    \/ \E p \in {1, 5, 8} :
          /\ At("drv", p)
          /\ SignalWrite
          /\ env' = [env EXCEPT
                       !.clk = IF p = 5 THEN "1" ELSE "0",
                       !.writes = Append(@, [t |-> now,
                                             v |-> IF p = 5 THEN "1" ELSE "0",
                                             ph |-> curList, ro |-> rtl.ro]),
                       !.pos["drv"] = IF p = 8 THEN 3 ELSE p + 1]
    \/ \E p \in {2, 3, 6} :
          LET d == IF p = 2 THEN initWait ELSE halfPeriod IN
          /\ At("drv", p)
          /\ TimerApply(d)
          /\ env' = Goto("drv", p + 1)

\* the change of the clock signal the callback loop selects
EdgeSelected(a) == env.edge[a] = "any" \/ env.seen = "1"

\* CallbackLoop and OnRisingCallbackLoop: the process which registers the
\* callback on the signal, and the callback, which yields a new instance of
\* the wrapped generator function when the agent is enabled
CallbackLoop(a) ==
    \/ /\ At(PidOf.reg[a], 0)
       /\ GenReturn
       /\ env' = [env EXCEPT !.watch = Append(@, Item(PidOf.cb[a], -1)),
                             !.pos[PidOf.reg[a]] = 1]
    \/ /\ At(PidOf.cb[a], 0)
       /\ LET spawn == env.en[a] /\ EdgeSelected(a)
              e == [env EXCEPT
                      !.pos[PidOf.cb[a]] = 1,
                      !.cbLog[a] = IF EdgeSelected(a)
                                   THEN Append(@, [t |-> now,
                                                   want |-> env.want[a],
                                                   spawned |-> spawn])
                                   ELSE @]
          IN IF spawn
             THEN /\ SpawnChild(Item(PidOf.inst[a], -1))
                  /\ env' = [e EXCEPT !.pos[PidOf.inst[a]] = 1]
             ELSE /\ env' = e
                  /\ UNCHANGED simVars
    \/ /\ At(PidOf.cb[a], 1)
       /\ GenReturn
       /\ env' = Goto(PidOf.cb[a], 0)

\* faulty variant of ClockAgent.monitor: every observation is appended, the
\* time of the last tuple is not looked at
ClkMonitor_append ==
    \/ /\ At("instK", 1)
       /\ WaitApply("WaitCombRead")
       /\ env' = Goto("instK", 2)
    \/ /\ At("instK", 2)
       /\ GenReturn
       /\ env' = [env EXCEPT
                    !.pos["instK"] = 0,
                    !.last = [t |-> now, v |-> env.seen],
                    !.data = Append(@, [t |-> now, v |-> env.seen])]

\* ClockAgent.monitor: an instance; position 1 is the wait of line 55,
\* position 2 the lines 56-80
ClkMonitor ==
    \/ /\ At("instK", 1)
       /\ WaitApply("WaitCombRead")
       /\ env' = Goto("instK", 2)
    \/ /\ At("instK", 2)
       /\ GenReturn
       /\ LET next == [t |-> now, v |-> env.seen] IN
          env' = [env EXCEPT
                    !.pos["instK"] = 0,
                    !.last = IF env.last.t = now /\ env.last.v = next.v
                             THEN @ ELSE next,
                    !.data = IF env.last.t # now THEN Append(@, next)
                             ELSE IF env.last.v = next.v THEN @
                             ELSE IF @ = <<>> THEN <<next>>
                             ELSE [@ EXCEPT ![Len(@)] = next]]

InitClock == InitWith(Bench("clock"))

NextClock == BenchRun \/ Scheduler \/ ClkDriver \/ CallbackLoop("K") \/ ClkMonitor

SpecClock == InitClock /\ [][NextClock]_vars

\* ---------------------------------------------- test bench: pull-up reset
\* A PullUpAgent drives the signal and a ClockAgent monitors it.
initDelay == 6

MaxOver == 3

\* faulty variant: the values of PullDownAgent.driver
PullValue_down(p) == IF p = 1 THEN "1" ELSE "0"

\* PullUpAgent.driver: sig.write(0) at position 1, sig.write(1) at 4
PullValue(p) == IF p = 1 THEN "0" ELSE "1"

\* PullUpAgent.driver: position 0 is line 21, 1 line 22, 2 line 23, 3 line
\* 24, 4 line 25, 5 the end of the generator
PullUpDriver ==
    \/ \E p \in {0, 3} :
          /\ At("pull", p)
          /\ WaitApply("WaitWriteOnly")
          /\ env' = Goto("pull", p + 1)
    \/ \E p \in {1, 4} :
          /\ At("pull", p)
          /\ SignalWrite
          /\ env' = [env EXCEPT
                       !.clk = PullValue(p),
                       !.writes = Append(@, [t |-> now, v |-> PullValue(p),
                                             ph |-> curList, ro |-> rtl.ro]),
                       !.pos["pull"] = p + 1]
    \/ /\ At("pull", 2)
       /\ TimerApply(initDelay)
       /\ env' = Goto("pull", 3)
    \/ /\ At("pull", 5)
       /\ GenReturn
       /\ env' = Goto("pull", 6)

\* the run is longer than initDelay
InitPullUp ==
    \E u \in initDelay + 1 .. initDelay + MaxOver :
       InitWith([Bench("clock") EXCEPT
                   !.scn = "pullup", !.horizon = u,
                   !.procs = <<Item("pull", -1), Item("regK", -1)>>])

NextPullUp == BenchRun \/ Scheduler \/ PullUpDriver \/ CallbackLoop("K") \/ ClkMonitor

SpecPullUp == InitPullUp /\ [][NextPullUp]_vars

\* ------------------------------------------ test bench: clock round trip
MaxPeriod == 5

MaxCycles == 3

\* the periods of the clock: a period of 1 makes halfPeriod 0, and the
\* driver then never leaves the instant 0
Periods == 2..MaxPeriod

\* a ClockAgent driver of period p and a ClockAgent monitor, run for n
\* periods
RoundTrip(p, n) ==
    [Bench("clock") EXCEPT !.scn = "roundtrip", !.period = p,
                           !.horizon = n * p]

InitRoundTrip == \E p \in Periods, n \in 1..MaxCycles : InitWith(RoundTrip(p, n))

SpecRoundTrip == InitRoundTrip /\ [][NextClock]_vars

\* ------------------------------------- test bench: ready/valid handshake
MaxToggles == 2

\* int(en), int(doSend)
Bit(b) == IF b THEN "1" ELSE "0"

\* faulty variant of the checks of _enabled: the flag is not looked at
Disabled_never(a) == FALSE

\* "if not self._enabled" in a process of the agent a
Disabled(a) == ~env.en[a]

\* faulty variant of setEnable: _enabled is not assigned
SetEnable_forget(a, en) ==
    IF a = "M"
    THEN [env EXCEPT !.sig.rd = Bit(en), !.lastRd = Bit(en)]
    ELSE env

\* agent.setEnable(en) after getDrivers() (agent D) or getMonitors()
\* (agent M): the test bench after the call
SetEnable(a, en) ==
    LET e == [env EXCEPT !.en[a] = en]
        pop == env.actualData = "NOP" /\ env.dq # <<>>
        act == IF pop THEN Head(env.dq) ELSE env.actualData
        doSend == act # "NOP"
    IN IF a = "M"
       THEN [e EXCEPT !.sig.rd = Bit(en), !.lastRd = Bit(en)]
       ELSE IF a # "D" THEN e
       ELSE IF en
       THEN [e EXCEPT !.actualData = act,
                      !.dq = IF pop THEN Tail(@) ELSE @,
                      !.sig.data = IF doSend THEN act ELSE @,
                      !.sig.vld = Bit(doSend),
                      !.lastVld = Bit(doSend)]
       ELSE [e EXCEPT !.sig.vld = "0", !.sig.data = "None",
                      !.lastVld = "0"]

\* _run_process, line 115: the generator raises an exception
GenRaise(kind) ==
    /\ ev' = Ev("raise", 0)
    /\ exc' = Exc(kind, "proc")
    /\ pc' = "exit"
    /\ UNCHANGED <<now, calendar, cur, curList, idx, running, rtl, until,
                   first_run, ret, evalIter, result, runNo, runStart,
                   first_instant, lastWake>>

\* statements of a generator between two yields: w tells whether a signal
\* is written, e is the test bench after them
Statements(w, e) ==
    /\ IF w THEN SignalWrite ELSE UNCHANGED simVars
    /\ env' = e

\* the instance returns at a check of _enabled
CutShort(a) ==
    /\ GenReturn
    /\ env' = [env EXCEPT !.pos[PidOf.inst[a]] = 0, !.cut[a] = TRUE]

\* DataRdVldAgent.monitor with rst = None: position 1 is line 98, 2 the
\* lines 99-103, 3 the lines 104-118, 4 the lines 119-124, 5 the lines
\* 126-130, 6 the lines 131-164
RdVldMonitor ==
    \/ /\ At("instM", 1)
       /\ WaitApply("WaitCombRead")
       /\ env' = Goto("instM", 2)
    \/ /\ At("instM", 2)
       /\ IF Disabled("M") THEN CutShort("M")
          ELSE /\ WaitApply("WaitWriteOnly")
               /\ env' = Goto("instM", 3)
    \/ /\ At("instM", 3)
       /\ IF Disabled("M") THEN CutShort("M")
          ELSE IF env.lastRd # "1"
          THEN Statements(TRUE, [env EXCEPT !.readyConsumed = FALSE,
                                            !.sig.rd = "1", !.lastRd = "1",
                                            !.pos["instM"] = 5])
          ELSE /\ WaitApply("WaitCombRead")
               /\ env' = [env EXCEPT !.readyConsumed = FALSE,
                                     !.pos["instM"] = 4]
    \/ /\ At("instM", 4)
       /\ IF env.vis.rd # env.lastRd
          THEN GenRaise("AssertionError") /\ UNCHANGED env
          ELSE Statements(FALSE, Goto("instM", 5))
    \/ /\ At("instM", 5)
       /\ IF Disabled("M") THEN CutShort("M")
          ELSE /\ WaitApply("WaitCombStable")
               /\ env' = Goto("instM", 6)
    \/ /\ At("instM", 6)
       /\ IF Disabled("M") THEN CutShort("M")
          ELSE IF env.vis.vld = "x"
          THEN GenRaise("AssertionError") /\ UNCHANGED env
          ELSE /\ GenReturn
               /\ env' = [env EXCEPT
                            !.pos["instM"] = 0,
                            !.recv = IF env.vis.vld = "1"
                                     THEN Append(@, env.vis.data) ELSE @,
                            !.readyConsumed = IF env.vis.vld = "1"
                                              THEN TRUE ELSE @]

\* DataRdVldAgent.driver with rst = None: driverPreSet (position 1 is line
\* 201, 2 the lines 202-222, 3 line 224, 4 the lines 225-230, 5 the lines
\* 231-232) and driverMarkDataSendOnClkTick (6 the lines 238-246, 7 the
\* lines 247-281, 8 the return of line 243)
RdVldDriver ==
    \/ /\ At("instD", 1)
       /\ WaitApply("WaitWriteOnly")
       /\ env' = Goto("instD", 2)
    \/ /\ At("instD", 2)
       /\ LET pop == env.actualData = "NOP" /\ env.dq # <<>>
              act == IF pop THEN Head(env.dq) ELSE env.actualData
              doSend == act # "NOP"
              changed == act # env.lastWritten
              clear == changed /\ ~doSend /\ env.lastVld = "1"
          IN IF Disabled("D")
             THEN Statements(FALSE, [env EXCEPT !.pos["instD"] = 6,
                                                !.cut["D"] = TRUE])
             ELSE Statements(changed,
                    [env EXCEPT
                       !.actualData = act,
                       !.dq = IF pop THEN Tail(@) ELSE @,
                       !.doSend = doSend,
                       !.sig.data = IF ~changed THEN @
                                    ELSE IF doSend THEN act ELSE "None",
                       !.sig.vld = IF clear THEN "0" ELSE @,
                       !.lastVld = IF clear THEN "0" ELSE @,
                       !.lastWritten = IF changed THEN act ELSE @,
                       !.pos["instD"] = 3])
    \/ /\ At("instD", 3)
       /\ WaitApply("WaitCombRead")
       /\ env' = Goto("instD", 4)
    \/ /\ At("instD", 4)
       /\ IF Disabled("D")
          THEN Statements(FALSE, [env EXCEPT !.pos["instD"] = 6,
                                             !.cut["D"] = TRUE])
          ELSE IF env.lastVld # Bit(env.doSend)
          THEN /\ WaitApply("WaitWriteOnly")
               /\ env' = Goto("instD", 5)
          ELSE Statements(FALSE, Goto("instD", 6))
    \/ /\ At("instD", 5)
       /\ Statements(TRUE, [env EXCEPT !.sig.vld = Bit(env.doSend),
                                       !.lastVld = Bit(env.doSend),
                                       !.pos["instD"] = 6])
    \/ /\ At("instD", 6)
       /\ IF Disabled("D")
          THEN /\ SpawnChild(Item("chk", -1))
               /\ env' = [env EXCEPT !.pos["instD"] = 8, !.pos["chk"] = 1,
                                     !.cut["D"] = TRUE]
          ELSE /\ WaitApply("WaitCombStable")
               /\ env' = Goto("instD", 7)
    \/ /\ At("instD", 7)
       /\ IF Disabled("D") THEN CutShort("D")
          ELSE IF env.vis.rd = "x"
          THEN GenRaise("AssertionError") /\ UNCHANGED env
          ELSE LET ack == env.lastVld = "1" /\ env.vis.rd = "1" IN
               /\ GenReturn
               /\ env' = [env EXCEPT
                            !.pos["instD"] = 0,
                            !.actualData = IF ~ack THEN @
                                           ELSE IF env.dq # <<>>
                                           THEN Head(env.dq) ELSE "NOP",
                            !.dq = IF ack /\ @ # <<>> THEN Tail(@) ELSE @]
    \/ /\ At("instD", 8)
       /\ GenReturn
       /\ env' = Goto("instD", 0)

\* DataRdVldAgent.checkIfRdWillBeValid
CheckIfRdWillBeValid ==
    \/ /\ At("chk", 1)
       /\ WaitApply("WaitCombStable")
       /\ env' = Goto("chk", 2)
    \/ /\ At("chk", 2)
       /\ IF env.vis.rd = "x"
          THEN GenRaise("AssertionError") /\ UNCHANGED env
          ELSE GenReturn /\ env' = Goto("chk", 0)

\* the process of the test bench which calls setEnable: it wakes up every
\* half period in write_only, where it may toggle an agent, do nothing, or
\* come back in the next pass over write_only of the same instant
Controller ==
    \/ /\ At("ctl", 0)
       /\ now + halfPeriod <= Horizon
       /\ TimerApply(halfPeriod)
       /\ env' = Goto("ctl", 1)
    \/ \E a \in {"D", "M"} :
          /\ At("ctl", 1)
          /\ env.toggles < MaxToggles
          /\ Statements(TRUE, [SetEnable(a, ~env.en[a]) EXCEPT
                                 !.want[a] = ~env.en[a],
                                 !.toggles = @ + 1,
                                 !.toggled = @ \cup {a},
                                 !.pos["ctl"] = 0])
    \/ /\ At("ctl", 1)
       /\ Statements(FALSE, Goto("ctl", 0))
    \/ /\ At("ctl", 1)
       /\ env.toggles < MaxToggles
       /\ WaitApply("WaitCombRead")
       /\ env' = Goto("ctl", 2)
    \/ /\ At("ctl", 2)
       /\ WaitApply("WaitWriteOnly")
       /\ env' = Goto("ctl", 1)

InitHandshake == InitWith(Bench("handshake"))

NextHandshake ==
    \/ BenchRun
    \/ Scheduler
    \/ ClkDriver
    \/ \E a \in {"D", "M"} : CallbackLoop(a)
    \/ RdVldMonitor
    \/ RdVldDriver
    \/ CheckIfRdWillBeValid
    \/ Controller

SpecHandshake == InitHandshake /\ [][NextHandshake]_vars

\* ------------------------------------------------- test bench: UART line
\* UartDataAgent.bit_period (set_baud, line 39), scaled down
bit_period == 4

\* UartDataAgent.monitor and driver: range(8), the data bits of a character
CharBits == 8

Chars == 0 .. 2 ^ CharBits - 1

START_BIT == "0"

STOP_BIT == "1"

\* Timer(self.bit_period // 2)
half_period == bit_period \div 2

\* UartDataAgent.driver, line 103: (ch >> i) & 0b1
DataBit(ch, i) == IF (ch \div 2 ^ i) % 2 = 1 THEN "1" ELSE "0"

\* UartDataAgent.monitor, lines 82-85: the character of the bits of buff,
\* the first one the least significant
RECURSIVE Assemble(_)
Assemble(buff) == IF buff = <<>> THEN 0
                  ELSE (IF Head(buff) = "1" THEN 1 ELSE 0)
                       + 2 * Assemble(Tail(buff))

\* the two agents on one signal: data is the queue of the driver, i the
\* index of the "for" loop of the driver, sent the characters it took;
\* char_buff is the buffer of the monitor, ch the character it assembled
\* last, frames its verdicts
UartAgents(c) ==
    [en_tx |-> TRUE, en_rx |-> TRUE, data |-> <<c>>, i |-> 0, sent |-> <<>>,
     char_buff |-> <<>>, ch |-> -1, frames |-> <<>>]

\* the driver writes v on the signal (hwIO.write)
UartWrite(v, e) ==
    /\ SignalWrite
    /\ env' = [e EXCEPT !.clk = v,
                        !.writes = Append(@, [t |-> now, v |-> v,
                                              ph |-> curList, ro |-> rtl.ro])]

\* UartDataAgent.driver: position 0 is line 96, 1 the "if" of line 98 with
\* the lines 99-100 or the yield of line 106, 2 the yields of lines 101 and
\* 104, 3 the writes of lines 103 and 105, 4 the yield of line 106
UartDriver ==
    \/ /\ At("utx", 0)
       /\ TimerApply(half_period)
       /\ env' = Goto("utx", 1)
    \/ /\ At("utx", 1)
       /\ IF env.uart.en_tx /\ env.uart.data # <<>>
          THEN UartWrite(START_BIT,
                         [env EXCEPT !.uart.sent = Append(@, Head(env.uart.data)),
                                     !.uart.data = Tail(@),
                                     !.uart.i = 0,
                                     !.pos["utx"] = 2])
          ELSE /\ TimerApply(bit_period)
               /\ UNCHANGED env
    \/ /\ At("utx", 2)
       /\ TimerApply(bit_period)
       /\ env' = Goto("utx", 3)
    \/ /\ At("utx", 3)
       /\ IF env.uart.i < CharBits
          THEN UartWrite(DataBit(env.uart.sent[Len(env.uart.sent)], env.uart.i),
                         [env EXCEPT !.uart.i = @ + 1, !.pos["utx"] = 2])
          ELSE UartWrite(STOP_BIT, Goto("utx", 4))
    \/ /\ At("utx", 4)
       /\ TimerApply(bit_period)
       /\ env' = Goto("utx", 1)

\* UartDataAgent.monitor: position 0 is line 57, 1 the lines 61-65, 2 the
\* lines 66-70 with the first yield of line 73, 3 line 74, 4 the lines 75-76
\* with the next yield of line 73 or, after the eighth bit, the lines 78-90:
\* the buffer is cleared (line 81) before the character is assembled from
\* it; int() of an undefined value raises ValueError
UartMonitor ==
    \/ /\ At("urx", 0)
       /\ TimerApply(half_period)
       /\ env' = Goto("urx", 1)
    \/ /\ At("urx", 1)
       /\ IF ~env.uart.en_rx
          THEN /\ TimerApply(bit_period)
               /\ UNCHANGED env
          ELSE /\ WaitApply("WaitTimeslotEnd")
               /\ env' = Goto("urx", 2)
    \/ /\ At("urx", 2)
       /\ IF env.seen = "x"
          THEN /\ GenRaise("ValueError")
               /\ UNCHANGED env
          ELSE IF env.seen = START_BIT
          THEN /\ TimerApply(bit_period)
               /\ env' = Goto("urx", 3)
          ELSE /\ TimerApply(half_period)
               /\ env' = Goto("urx", 1)
    \/ /\ At("urx", 3)
       /\ WaitApply("WaitTimeslotEnd")
       /\ env' = Goto("urx", 4)
    \/ /\ At("urx", 4)
       /\ LET d == env.seen
              buff == Append(env.uart.char_buff, d)
              cleared == <<>>
          IN IF Len(buff) < CharBits
             THEN /\ TimerApply(bit_period)
                  /\ env' = [env EXCEPT !.uart.char_buff = buff,
                                        !.pos["urx"] = 3]
             ELSE IF d = "x"
             THEN /\ GenRaise("ValueError")
                  /\ env' = [env EXCEPT !.uart.char_buff = buff]
             ELSE IF d = STOP_BIT
             THEN /\ TimerApply(bit_period)
                  /\ env' = [env EXCEPT
                               !.uart.char_buff = cleared,
                               !.uart.ch = Assemble(cleared),
                               !.uart.frames = Append(@, [t |-> now, ok |-> TRUE,
                                                          ch |-> Assemble(cleared)]),
                               !.pos["urx"] = 1]
             ELSE /\ TimerApply(half_period)
                  /\ env' = [env EXCEPT
                               !.uart.char_buff = cleared,
                               !.uart.frames = Append(@, [t |-> now, ok |-> FALSE,
                                                          ch |-> -1]),
                               !.pos["urx"] = 1]

\* the run covers the frame of one character: ten bit periods from the
\* first step of the driver, and the instant after them
UartUntil == half_period + 10 * bit_period + 1

\* a driver with one character in its queue and a monitor of the same bit
\* period on the same signal, whose changes a ClockAgent monitor logs
InitUart ==
    \E c \in Chars :
       InitWith([uart |-> UartAgents(c)]
                @@ [Bench("clock") EXCEPT
                      !.scn = "uart", !.horizon = UartUntil,
                      !.procs = <<Item("utx", -1), Item("urx", -1),
                                  Item("regK", -1)>>])

NextUart ==
    BenchRun \/ Scheduler \/ UartDriver \/ UartMonitor \/ CallbackLoop("K")
      \/ ClkMonitor

SpecUart == InitUart /\ [][NextUart]_vars

\* ------------------------------- test bench: several changes in an instant
MaxChanges == 2

\* a process of the test bench which writes the clock signal up to
\* MaxChanges times in an instant, with an evaluation between two writes:
\* position 0 is its WaitWriteOnly, 1 the write, 2 the choice between the
\* next instant and WaitCombRead, 3 the WaitWriteOnly which reopens write_only
GlitchDriver ==
    \/ \E p \in {0, 3} :
          /\ At("gl", p)
          /\ WaitApply("WaitWriteOnly")
          /\ env' = Goto("gl", 1)
    \/ \E v \in {"0", "1"} :
          /\ At("gl", 1)
          /\ SignalWrite
          /\ env' = [env EXCEPT
                       !.clk = v,
                       !.writes = Append(@, [t |-> now, v |-> v,
                                             ph |-> curList, ro |-> rtl.ro]),
                       !.toggles = @ + 1,
                       !.pos["gl"] = 2]
    \/ /\ At("gl", 2)
       /\ env.toggles < MaxChanges
       /\ WaitApply("WaitCombRead")
       /\ env' = Goto("gl", 3)
    \/ /\ At("gl", 2)
       /\ TimerApply(1)
       /\ env' = [env EXCEPT !.toggles = 0, !.pos["gl"] = 0]

\* the clock signal is driven by the process above and watched by a
\* ClockAgent monitor
InitGlitch ==
    InitWith([Bench("clock") EXCEPT
                !.scn = "glitch", !.horizon = MaxTime + 1,
                !.procs = <<Item("gl", -1), Item("regK", -1)>>])

NextGlitch == BenchRun \/ Scheduler \/ GlitchDriver \/ CallbackLoop("K") \/ ClkMonitor

SpecGlitch == InitGlitch /\ [][NextGlitch]_vars

\* ------------------------------------------------------------ properties
\* a call of run() has ended
Ended == pc = "idle" /\ runNo > 0

\* the run was ended by a user process (StopSimulation or an error it
\* caused) or by the status of the back-end
EndedByProcess == exc.by = "proc" \/ exc.k = "AssertionError:status"

\* C1: the time never decreases, the assertion after the pop of a slot never
\* fails, and every slot popped after the first one of a run has a time
\* strictly greater than the one before
C1_MonotonicTime ==
    [][ /\ now' >= now
        /\ exc'.k # "AssertionError:time"
        /\ (pc = "pop" /\ pc' = "timeslot_begin" /\ ~first_instant)
              => now' > now ]_vars

\* a later instant of a run has begun
C1_Witness == pc = "timeslot_begin" /\ now > runStart

\* C2 as stated: inside one instant a wake-up is never followed by a wake-up
\* in an earlier phase
C2_PhaseOrderAsStated ==
    [][ (lastWake # "none" /\ lastWake' # "none")
           => PhaseIdx(lastWake') >= PhaseIdx(lastWake) ]_vars

\* C2: inside one instant a wake-up is never followed by a wake-up in an
\* earlier phase, except that a wake-up in write_only may follow one in
\* comb_read (the pass over write_only and comb_read is repeated while a
\* write is pending); so timeslot_begin comes first and comb_stable,
\* mem_stable and timeslot_end come in this order after every wake-up in
\* write_only and comb_read
C2_PhaseOrder ==
    [][ (lastWake # "none" /\ lastWake' # "none")
           => \/ PhaseIdx(lastWake') >= PhaseIdx(lastWake)
              \/ lastWake = "comb_read" /\ lastWake' = "write_only" ]_vars

\* a process is woken in write_only after a pass over comb_read
C2_Witness ==
    /\ pc = "write_only"
    /\ running = "proc"
    /\ lastWake = "write_only"
    /\ ~first_run

\* the positions of run() at which the list of the phase is sealed
SealedPcs(ph) ==
    IF ph = "timeslot_begin"
    THEN {"write_only", "eval_comb", "cb_comb_read", "comb_read",
          "eval_stable", "cb_comb_stable", "comb_stable", "eval_mem",
          "cb_mem_stable", "mem_stable", "timeslot_end"}
    ELSE IF ph \in {"write_only", "comb_read"}
    THEN {"eval_stable", "cb_comb_stable", "comb_stable", "eval_mem",
          "cb_mem_stable", "mem_stable", "timeslot_end"}
    ELSE IF ph = "comb_stable"
    THEN {"eval_mem", "cb_mem_stable", "mem_stable", "timeslot_end"}
    ELSE IF ph = "mem_stable" THEN {"timeslot_end"}
    ELSE {}

\* C3: a process which yields a phase wait whose phase is sealed gets
\* PhaseClosedError: nothing is enqueued, the process is not suspended and
\* the error leaves run()
C3_SealedPhasesReject ==
    [][ /\ \A kind \in WaitKinds :
             (Running /\ ev'.k = kind /\ pc \in SealedPcs(WaitTarget(kind)))
                => /\ exc' = Exc("PhaseClosedError", "proc")
                   /\ pc' = "exit"
                   /\ cur' = cur
                   /\ calendar' = calendar
        /\ (pc = "exit" /\ exc.k = "PhaseClosedError")
              => (pc' = "idle" /\ result' = "raised" /\ exc' = exc
                  /\ running' = NoProc) ]_vars

\* WaitWriteOnly was yielded after write_only was sealed and failed
C3_Witness ==
    /\ pc = "exit"
    /\ ev.k = "WaitWriteOnly"
    /\ exc.k = "PhaseClosedError"
    /\ lastWake \in {"comb_stable", "mem_stable", "timeslot_end"}

\* C4 as stated: the first run(until) with until > 0 ends with now = until
\* and one finalize(), no process runs after until
C4_StopAtBoundAsStated ==
    (runNo = 1 /\ until > 0)
       => /\ Running => now <= until
          /\ pc = "idle" => (now = until /\ rtl.fin = 1)

\* C4: the first run(until) with until > 0 never passes until and calls
\* finalize() once; it ends with now = until by the raiser of the end slot
\* unless a process or the status of the back-end ended it before
C4_StopAtBound ==
    (runNo = 1 /\ until > 0)
       => /\ now <= until
          /\ Running => now < until
          /\ pc = "idle"
                => /\ rtl.fin = 1
                   /\ \/ /\ now = until
                         /\ exc = Exc("StopSimulation", "raiser")
                         /\ result = "returned"
                      \/ now < until /\ EndedByProcess

\* the first run was ended at until by the raiser
C4_Witness ==
    /\ runNo = 1
    /\ pc = "idle"
    /\ until > 1
    /\ now = until
    /\ exc.by = "raiser"
    /\ rtl.fin = 1

\* C5 as stated: every call of run() which has ended has called finalize()
\* exactly once
C5_FinalizeOnEveryExit == Ended => rtl.fin = 1

FatalKinds == {"ValueError", "AssertionError:status"}

\* C6: an invalid yielded value raises ValueError and an eval() status other
\* than COMB_UPDATE_DONE after a write_only pass raises AssertionError; the
\* next step of a run with such an error is its end: finalize() is called,
\* the error is raised to the caller, no item is run and the time stays
C6_FatalErrorsAbort ==
    [][ /\ (Running /\ ev'.k = "Invalid")
              => (pc' = "exit" /\ exc' = Exc("ValueError", "proc"))
        /\ (pc = "eval_comb" /\ ret' # COMB_UPDATE_DONE)
              => (pc' = "exit" /\ exc'.k = "AssertionError:status")
        /\ (pc = "exit" /\ exc.k \in FatalKinds)
              => /\ pc' = "idle"
                 /\ result' = "raised"
                 /\ exc' = exc
                 /\ rtl'.fin = rtl.fin + 1
                 /\ running' = NoProc
                 /\ now' = now
                 /\ calendar' = calendar
        /\ (pc = "idle" /\ result = "raised") => running' = NoProc ]_vars

\* run() has raised the ValueError of an invalid yielded value
C6_Witness ==
    /\ pc = "idle"
    /\ result = "raised"
    /\ exc.k = "ValueError"
    /\ rtl.fin = 1

\* C7: a run ended by StopSimulation has returned to its caller, finalize()
\* was called and read_only_not_write_only of the back-end is true
C7_CleanStop ==
    (pc = "idle" /\ exc.k = "StopSimulation")
       => (result = "returned" /\ rtl.ro /\ rtl.fin = 1)

\* run() has returned after the StopSimulation of the raiser
C7_Witness ==
    /\ pc = "idle"
    /\ exc = Exc("StopSimulation", "raiser")
    /\ result = "returned"
    /\ rtl.ro

\* the raiser is the first item of write_only of the slot at now + until
RaiserFirst ==
    /\ EndTime(runStart, until) \in DOMAIN calendar
    /\ calendar[EndTime(runStart, until)].write_only.q # <<>>
    /\ Head(calendar[EndTime(runStart, until)].write_only.q) = Raiser

\* C8 as stated (weakened to any end of the run): every call of run()
\* ends
C8_TerminationAsStated == (pc # "idle") ~> (pc = "idle")

\* C8: run() starts with the raiser as the first item of write_only of the
\* slot at now + until; unless some instant never ends, every call of run()
\* ends, by a raiser or earlier by a process or the status of the back-end
C8_Termination ==
    /\ [](pc = "pop" /\ first_instant => RaiserFirst)
    /\ \/ <>[](pc \notin {"idle", "pop"})
       \/ [](pc # "idle"
               => <>(Ended /\ (exc.by = "raiser" \/ EndedByProcess)))

\* the raiser has ended a run whose calendar still holds processes
C8_Witness ==
    /\ pc = "idle"
    /\ exc.by = "raiser"
    /\ result = "returned"
    /\ CalendarCount(calendar) > 0

\* C9 as stated: a call of run(until) which was not ended by a process has
\* returned with now = (now at the call) + until
C9_DurationFromNow ==
    (Ended /\ ~EndedByProcess)
       => (result = "returned" /\ now = runStart + until)

\* the generators suspended by Timer are in write_only of the slot of their
\* time only
TimerItemsPlaced ==
    /\ \A t \in DOMAIN calendar : \A ph \in PhaseNames :
          \A i \in 1 .. Len(calendar[t][ph].q) :
             calendar[t][ph].q[i].t >= 0
                => (ph = "write_only" /\ calendar[t][ph].q[i].t = t)
    /\ InRun => \A ph \in PhaseNames : \A i \in 1 .. Len(cur[ph].q) :
          cur[ph].q[i].t >= 0
             => /\ ph = "write_only"
                /\ cur[ph].q[i].t = now
                /\ pc = "timeslot_begin" \/ (pc = "write_only" /\ first_run)

\* C10: Timer(d) with d > 0 suspends the process and appends it to
\* write_only of the slot at now + d, which is created when missing and
\* otherwise keeps all its items; nothing else changes; the process is
\* woken in the first pass over write_only of that slot
C10_TimerScheduling ==
    [][ /\ TimerItemsPlaced
        /\ \A ph \in PhaseNames :
              (pc = ph /\ running = NoProc /\ running' = "proc"
                  /\ Head(cur[ph].q).t >= 0)
                 => (ph = "write_only" /\ now = Head(cur[ph].q).t)
        /\ \A d \in 1 .. MaxTime :
              (Running /\ ev' = Ev("Timer", d))
                 => LET t == now + d
                        old == IF t \in DOMAIN calendar THEN calendar[t]
                               ELSE SimTimeSlot
                    IN /\ running' = NoProc
                       /\ pc' = pc
                       /\ cur' = cur
                       /\ DOMAIN calendar' = DOMAIN calendar \cup {t}
                       /\ \A u \in DOMAIN calendar :
                             u # t => calendar'[u] = calendar[u]
                       /\ calendar'[t].write_only.k = "list"
                       /\ calendar'[t].write_only.q
                             = old.write_only.q \o <<TimerProc(t)>>
                       /\ \A ph \in PhaseNames \ {"write_only"} :
                             calendar'[t][ph] = old[ph] ]_vars

\* Timer has put a process behind the items of an existing slot
C10_Witness ==
    /\ ev.k = "Timer"
    /\ ev.a > 0
    /\ running = NoProc
    /\ now + ev.a \in DOMAIN calendar
    /\ Len(calendar[now + ev.a].write_only.q) >= 2
    /\ calendar[now + ev.a].write_only.q[
          Len(calendar[now + ev.a].write_only.q)] = TimerProc(now + ev.a)

\* C11: a process suspended by Timer is woken in write_only of the slot of
\* its time (C10); when it then yields WaitTimeslotEnd it is put at the tail
\* of timeslot_end of the current slot and the time stays; the items of
\* timeslot_end of the current slot are only taken out by being run in the
\* timeslot_end drain of this instant, the instant is only left when none is
\* left, and no slot of the calendar holds an item in timeslot_end
C11_TimerThenTimeslotEnd ==
    [][ /\ \A t \in DOMAIN calendar : calendar[t].timeslot_end.q = <<>>
        /\ \A ph \in PhaseNames :
              (pc = ph /\ running = NoProc /\ running' = "proc"
                  /\ Head(cur[ph].q).t >= 0)
                 => (ph = "write_only" /\ now = Head(cur[ph].q).t)
        /\ (Running /\ ev' = Ev("WaitTimeslotEnd", 0) /\ pc' # "exit")
              => /\ now' = now
                 /\ running' = NoProc
                 /\ cur'.timeslot_end
                       = List(cur.timeslot_end.q \o <<Proc>>)
        /\ (InRun /\ cur'.timeslot_end.q # cur.timeslot_end.q)
              => \/ /\ Running
                    /\ cur'.timeslot_end.q = cur.timeslot_end.q \o <<Proc>>
                 \/ /\ pc = "timeslot_end"
                    /\ pc' = "timeslot_end"
                    /\ now' = now
                    /\ running' = Head(cur.timeslot_end.q).id
                    /\ lastWake' = "timeslot_end"
                    /\ cur'.timeslot_end.q = Tail(cur.timeslot_end.q)
        /\ (InRun /\ pc' = "pop")
              => (pc = "timeslot_end" /\ cur.timeslot_end.q = <<>>) ]_vars

\* in a later instant of the first run a process woken in the first pass
\* over write_only has yielded WaitTimeslotEnd and waits in timeslot_end
C11_Witness ==
    /\ runNo = 1
    /\ now > 0
    /\ pc = "write_only"
    /\ first_run
    /\ ev.k = "WaitTimeslotEnd"
    /\ running = NoProc
    /\ cur.timeslot_end.q = <<Proc>>

\* C13 as stated, its half on write_only: while an item of write_only is run
\* the back-end is in write-accept mode, read_only_not_write_only is false
C13_WriteAcceptInWriteOnly ==
    (pc = "write_only" /\ running # NoProc) => ~rtl.ro

ReadPhases == {"comb_read", "comb_stable", "mem_stable", "timeslot_end"}

\* the positions of run() at which eval() is called
EvalPcs == {"eval_comb", "eval_stable", "eval_mem"}

C14_ReentrantWrite ==
    [][ /\ (Running /\ lastWake = "comb_read"
              /\ ev' = Ev("WaitWriteOnly", 0) /\ pc' # "exit")
              => /\ running' = NoProc
                 /\ cur'.write_only = List(cur.write_only.q \o <<Proc>>)
        /\ (pc = "comb_read" /\ pc' \notin {"comb_read", "exit"})
              => /\ now' = now
                 /\ IF cur.write_only.k = "list" /\ cur.write_only.q # <<>>
                    THEN /\ pc' = "write_only"
                         /\ ~rtl'.fresh
                         /\ cur'.write_only = cur.write_only
                         /\ cur'.comb_read.k = "None"
                    ELSE /\ pc' = "eval_stable"
                         /\ cur'.write_only.k = "DONE"
                         /\ cur'.comb_read.k = "DONE"
        /\ (pc = "eval_comb" /\ pc' \notin {"eval_comb", "exit"})
              => (pc' = "cb_comb_read" /\ rtl'.fresh /\ ~rtl'.dirty
                  /\ now' = now)
        /\ (pc = "cb_comb_read" /\ pc' # "cb_comb_read" /\ pc' # "exit")
              => pc' = "comb_read"
        /\ (Running /\ lastWake = "comb_read")
              => (rtl.fresh /\ ~rtl.dirty)
        /\ (InRun /\ cur.write_only.k # "DONE" /\ cur'.write_only.k = "DONE")
              => (pc = "comb_read" /\ cur.write_only.q = <<>>
                  /\ cur.comb_read.q = <<>>) ]_vars

\* a process is run in comb_read of a pass which followed a reopened
\* write_only pass
C14_Witness ==
    /\ pc = "comb_read"
    /\ running = "proc"
    /\ lastWake = "comb_read"
    /\ ~first_run
    /\ rtl.fresh

\* C15: a process run by the drain of a phase queue which yields a generator
\* goes on running, the generator is appended at the tail of the queue which
\* is drained; the items of a queue are taken from its head and run in its
\* drain, and the drain of a queue ends (the run ending apart) only when the
\* queue is empty, in the instant in which it began
C15_ReentrantEnqueue ==
    [][ /\ (Running /\ pc \in PhaseNames) => (curList = pc /\ lastWake = pc)
        /\ (Running /\ pc \in PhaseNames /\ ev' = Ev("Child", 0)
              /\ rtl' = rtl /\ pc' # "exit")
              => /\ cur'[pc] = List(cur[pc].q \o <<Proc>>)
                 /\ \A ph \in PhaseNames \ {pc} : cur'[ph] = cur[ph]
                 /\ running' = running
                 /\ pc' = pc
                 /\ now' = now
                 /\ calendar' = calendar
        /\ \A ph \in PhaseNames :
              (pc = ph /\ pc' = ph /\ Len(cur'[ph].q) < Len(cur[ph].q))
                 => /\ running = NoProc
                    /\ running' = Head(cur[ph].q).id
                    /\ lastWake' = ph
                    /\ cur'[ph].q = Tail(cur[ph].q)
                    /\ now' = now
        /\ \A ph \in PhaseNames :
              (pc = ph /\ pc' \notin {ph, "exit"})
                 => (cur[ph].q = <<>> /\ running = NoProc)
        /\ \A ph \in PhaseNames :
              (InRun /\ pc # ph /\ pc' # "exit" /\ cur[ph].k = "list")
                 => (cur'[ph].k = "list"
                     /\ Len(cur'[ph].q) >= Len(cur[ph].q)) ]_vars

\* the parent is running after it has spawned a child in comb_stable, the
\* child is the last item of the drained queue
C15_Witness ==
    /\ pc = "comb_stable"
    /\ running = "proc"
    /\ lastWake = "comb_stable"
    /\ ev = Ev("Child", 0)
    /\ curList = "comb_stable"
    /\ cur.comb_stable.q = <<Proc>>

\* s is the beginning of q
IsPrefix(s, q) == Len(s) <= Len(q) /\ SubSeq(q, 1, Len(s)) = s

\* C16: the order of a phase queue of an instant is the order of the appends
\* and the items are run in this order: while the simulation runs, a queue
\* of a slot of the calendar or of the current slot changes only by an
\* append at its tail or by the removal of its head, which is the item run
\* next; the slot popped from the calendar becomes the current slot as it is
C16_FifoWithinPhase ==
    [][ /\ InRun =>
              \A t \in DOMAIN calendar :
                 /\ t \in DOMAIN calendar'
                 /\ \A ph \in PhaseNames :
                       IsPrefix(calendar[t][ph].q, calendar'[t][ph].q)
        /\ (pc = "pop" /\ pc' = "timeslot_begin")
              => /\ cur' = calendar[now']
                 /\ \A t \in DOMAIN calendar : now' <= t
                 /\ \A t \in DOMAIN calendar' : calendar'[t] = calendar[t]
        /\ (InRun /\ pc' # "exit") =>
              \A ph \in PhaseNames :
                 \/ IsPrefix(cur[ph].q, cur'[ph].q)
                 \/ /\ cur[ph].q # <<>>
                    /\ cur'[ph].q = Tail(cur[ph].q)
                    /\ pc = ph
                    /\ running = NoProc
                    /\ running' = Head(cur[ph].q).id
                    /\ lastWake' = ph
        /\ (InRun /\ running = NoProc /\ running' # NoProc
              /\ pc \in PhaseNames)
              => (cur[pc].q # <<>> /\ running' = Head(cur[pc].q).id
                  /\ cur'[pc].q = Tail(cur[pc].q)) ]_vars

\* the StopSimulation raiser, the first item of write_only of the end slot,
\* is run before a process which was put behind it by a Timer
C16_Witness ==
    /\ pc = "write_only"
    /\ running = "raiser"
    /\ now > 0
    /\ cur.write_only.q = <<TimerProc(now)>>

\* the waiters resumed so far are the first ones of A, B, C, each of them
\* was resumed while comb_stable was drained, in the instant of the first fire
ResumedInOrder ==
    /\ Len(env.log) <= 3
    /\ \A i \in 1 .. Len(env.log) :
          /\ env.log[i].p = <<"A", "B", "C">>[i]
          /\ env.log[i].ph = "comb_stable"
          /\ env.fired # <<>>
          /\ env.log[i].t = env.fired[1]

\* C17: A, B and C, which wait for the Event in this order, are resumed in
\* this order while comb_stable of the instant of the fire is drained, all
\* three before the drain ends and mem_stable begins; the Event is fired by
\* a process run in the comb_stable drain; the iteration of the fired Event
\* takes its waiters and leaves it without waiters; an Event fired without
\* waiters resumes no process
C17_EventRendezvous ==
    [][ /\ ResumedInOrder'
        /\ (Len(env'.fired) > Len(env.fired))
              => /\ pc = "comb_stable" /\ lastWake = "comb_stable"
                 /\ running = "D"
                 /\ cur'.comb_stable.q = cur.comb_stable.q \o <<EventItem>>
        /\ (env.firing = <<>> /\ env'.firing # <<>>)
              => /\ pc = "comb_stable" /\ pc' = pc /\ now' = now
                 /\ env'.firing = <<"A", "B", "C">>
                 /\ env.waiters = <<"A", "B", "C">>
                 /\ env'.waiters = <<>>
        /\ (pc = "comb_stable" /\ pc' \notin {"comb_stable", "exit"})
              => /\ env.firing = <<>>
                 /\ cur.comb_stable.q = <<>>
                 /\ env.fired # <<>> =>
                       (Len(env.log) = 3 /\ env.waiters = <<>>)
        /\ (InRun /\ pc \in PhaseNames /\ Len(cur'[pc].q) < Len(cur[pc].q)
              /\ IsEvent(Head(cur[pc].q)) /\ env.waiters = <<>>)
              => /\ env'.firing = <<>>
                 /\ running' = NoProc
                 /\ env'.log = env.log
        /\ (running = NoProc /\ running' \in Waiters)
              => (env.firing # <<>> \/ (pc = "write_only" /\ now = 0
                                        /\ env.pos[running'] = 0)) ]_vars

\* E was fired a second time, in a later instant and without waiters, and
\* the drain of comb_stable of that instant has taken the Event from the list
C17_Witness ==
    /\ env.scn = "event"
    /\ Len(env.log) = 3
    /\ Len(env.fired) = 2
    /\ env.fired[2] > env.fired[1]
    /\ pc = "comb_stable"
    /\ env.pos["D"] = 3
    /\ running = NoProc
    /\ cur.comb_stable.q = <<>>

\* the nine transitions of the clock of period 10 until 45
ClockTuples ==
    <<[t |-> 0, v |-> "0"], [t |-> 5, v |-> "1"], [t |-> 10, v |-> "0"],
      [t |-> 15, v |-> "1"], [t |-> 20, v |-> "0"], [t |-> 25, v |-> "1"],
      [t |-> 30, v |-> "0"], [t |-> 35, v |-> "1"], [t |-> 40, v |-> "0"]>>

\* the writes of the driver, as (time, value)
Written == [i \in 1..Len(env.writes) |-> [t |-> env.writes[i].t, v |-> env.writes[i].v]]

\* C20: with period 10 and initWait 0, run until 45, the ClockAgent driver
\* writes exactly at 0, 5, ..., 40 the values 0, 1, 0, ..., 0, each write in
\* the phase write_only with the read-only flag clear, and the monitor
\* records exactly these nine (time, value) tuples: during the run the
\* writes and the records are prefixes of the nine tuples, and when the run
\* has returned both are the nine tuples
C20_ClockOscillation ==
    /\ IsPrefix(Written, ClockTuples)
    /\ IsPrefix(env.data, ClockTuples)
    /\ \A i \in 1..Len(env.writes) :
          env.writes[i].ph = "write_only" /\ ~env.writes[i].ro
    /\ (pc = "idle" /\ runNo = 1) =>
          /\ result = "returned"
          /\ now = RunUntil
          /\ Written = ClockTuples
          /\ env.data = ClockTuples

C20_Witness ==
    /\ pc = "idle"
    /\ runNo = 1
    /\ Len(env.writes) = 9
    /\ Len(env.data) = 9
    /\ env.last = [t |-> 40, v |-> "0"]


\* the agents of the ready/valid channel
Synced == {"D", "M"}

\* the eval() of this instant has seen the clock rise and its callbacks
\* have been run
AfterRisingEdge ==
    /\ InRun
    /\ env.seen = "1"
    /\ env.clk = "1"
    /\ env.writes # <<>>
    /\ env.writes[Len(env.writes)].t = now
    /\ (pc \in CallbackPcs => rtl.pending = <<>>)

\* C18: the wrapper of an edge-triggered agent is called at every rising
\* edge of the clock (and spawns nothing at another change), and it spawns an instance of the wrapped process for
\* that edge exactly when the last setEnable call before the edge (none: the
\* agent is enabled) had the argument True: the callback puts the instance
\* in the current list iff so, the k-th call is at the k-th rising edge, and
\* after the callbacks of a rising edge the last call is of this instant
C18_CallbackLoopEnable ==
    [][ \A a \in Synced :
          /\ (At(PidOf.cb[a], 0) /\ env'.pos[PidOf.cb[a]] = 1
                 /\ env.seen = "1")
               => /\ env.want[a]
                       => /\ cur'[curList].q
                               = cur[curList].q \o <<Item(PidOf.inst[a], -1)>>
                          /\ env'.pos[PidOf.inst[a]] = 1
                  /\ ~env.want[a]
                       => /\ cur' = cur
                          /\ env'.pos[PidOf.inst[a]] = env.pos[PidOf.inst[a]]
                  /\ now = period * Len(env.cbLog[a]) + halfPeriod
          /\ AfterRisingEdge'
               => /\ env'.cbLog[a] # <<>>
                  /\ env'.cbLog[a][Len(env'.cbLog[a])].t = now'
          /\ (env.pos[PidOf.inst[a]] = 0 /\ env'.pos[PidOf.inst[a]] # 0)
               => (At(PidOf.cb[a], 0) /\ env.seen = "1")
      ]_vars

\* an agent had an instance spawned, was disabled and skipped an edge, was
\* enabled again and has an instance spawned at the next edge
C18_Witness ==
    \E a \in Synced :
      /\ Len(env.cbLog[a]) = 3
      /\ env.cbLog[a][1].spawned
      /\ ~env.cbLog[a][2].spawned
      /\ env.cbLog[a][3].spawned
      /\ env.pos[PidOf.inst[a]] = 1
      /\ env.toggles = 2


\* the statement of C19 as given: no instance of the wrapped process is
\* cut short by a disable, none returns at a check of _enabled
C19_DisableNeverMidProcess == \A a \in Synced : ~env.cut[a]

\* the instance of the agent a takes a step
InstanceStep(a) == InRun /\ running = PidOf.inst[a]

\* the instance of the agent a returns
InstanceReturns(a) == InstanceStep(a) /\ env'.pos[PidOf.inst[a]] = 0

\* C19 (amended): a setEnable call leaves the suspended instance where it
\* is, in its queue; the instance which is resumed with the agent disabled
\* skips its remaining steps for that edge: the monitor writes nothing,
\* samples nothing and waits for no further phase; the driver leaves its
\* data alone and waits for no further phase, it may only finish the write
\* of valid it was suspended for and hand the check of ready to a child; an
\* instance which returns with the agent enabled has driven its signal and,
\* the monitor, sampled the channel
C19_DisableCutsAtNextCheck ==
    [][ /\ \A a \in Synced :
             (InRun /\ running = "ctl" /\ env'.en[a] # env.en[a])
               => /\ cur' = cur
                  /\ calendar' = calendar
                  /\ env'.pos[PidOf.inst[a]] = env.pos[PidOf.inst[a]]
        /\ (InstanceStep("M") /\ ~env.en["M"] /\ env.pos["instM"] > 1)
             => /\ rtl' = rtl
                /\ env'.sig = env.sig
                /\ env'.recv = env.recv
                /\ env'.lastRd = env.lastRd
                /\ env'.readyConsumed = env.readyConsumed
                /\ cur' = cur
                /\ InstanceReturns("M") => env'.cut["M"]
        /\ (InstanceStep("D") /\ ~env.en["D"] /\ env.pos["instD"] > 1)
             => /\ env'.actualData = env.actualData
                /\ env'.dq = env.dq
                /\ env'.sig.data = env.sig.data
                /\ env'.lastWritten = env.lastWritten
                /\ \/ cur' = cur
                   \/ cur' = [cur EXCEPT ![curList] =
                                 Append_(@, Item("chk", -1))]
                /\ InstanceReturns("D") => env'.cut["D"]
        /\ (InstanceReturns("M") /\ env.en["M"])
             => /\ env.lastRd = "1"
                /\ env.vis.rd = "1"
                /\ env'.recv = IF env.vis.vld = "1"
                               THEN Append(env.recv, env.vis.data)
                               ELSE env.recv
        /\ (InstanceReturns("D") /\ env.en["D"])
             => /\ env.lastVld = Bit(env.doSend)
                /\ env.vis.vld = env.lastVld
      ]_vars

\* the monitor was disabled while its instance waited for write_only or
\* comb_stable, and the instance has returned at its check
C19_Witness ==
    /\ env.cut["M"]
    /\ ~env.en["M"]
    /\ env.pos["instM"] = 0
    /\ env.cbLog["M"] # <<>>
    /\ env.cbLog["M"][Len(env.cbLog["M"])] = [t |-> now, want |-> TRUE,
                                              spawned |-> TRUE]


\* the records of the clock monitor with the value 1
RisingEdges == {i \in 1..Len(env.data) : env.data[i].v = "1"}

\* C21: a ClockAgent driver of any period with initWait 0 and a ClockAgent
\* monitor, run for N periods, that is until N * period: when the run has
\* returned the monitor holds exactly N records with the value 1, and each
\* of them has the time of a write of 1 by the driver
C21_ClockRoundTrip ==
    (pc = "idle" /\ runNo = 1)
      => /\ Cardinality(RisingEdges) * env.period = env.horizon
         /\ \A i \in RisingEdges :
              \E j \in 1..Len(env.writes) :
                 env.writes[j].v = "1" /\ env.writes[j].t = env.data[i].t


\* C22: the PullUpAgent driver with initDelay 6, in a run longer than 6,
\* writes exactly twice: 0 at time 0 and 1 at time 6, both while write_only
\* is drained with the read-only flag clear; the generator is finished after
\* the second write and the run ends with these two writes
C22_PullUpReset ==
    /\ IsPrefix(Written, <<[t |-> 0, v |-> "0"], [t |-> 6, v |-> "1"]>>)
    /\ \A i \in 1..Len(env.writes) :
          env.writes[i].ph = "write_only" /\ ~env.writes[i].ro
    /\ env.pos["pull"] >= 5 => Len(env.writes) = 2
    /\ (pc = "idle" /\ runNo = 1)
         => /\ result = "returned"
            /\ now = env.horizon
            /\ Len(env.writes) = 2
            /\ env.pos["pull"] = 6

C22_Witness ==
    /\ pc = "idle"
    /\ runNo = 1
    /\ now > initDelay
    /\ Written = <<[t |-> 0, v |-> "0"], [t |-> 6, v |-> "1"]>>
    /\ env.data = Written


\* the back-end is stable in the instant of the k-th rising edge of the
\* clock: comb_stable is drained, the values the agents sampled stand
EdgeDone(k) == InRun /\ pc = "mem_stable" /\ now = halfPeriod + (k - 1) * env.period

\* C23: with the driver queue [AA, NOP, 55], a monitor which is never
\* disabled and no reset, the received queue of the monitor is always a
\* prefix of [AA, 55], the driver queue without NOP; it equals [AA, 55]
\* from the third rising edge on when no agent is ever disabled
C23_ReadyValidDelivery ==
    /\ "M" \notin env.toggled => IsPrefix(env.recv, <<"AA", "55">>)
    /\ (env.toggled = {} /\ (EdgeDone(3) \/ EdgeDone(4)))
         => env.recv = <<"AA", "55">>

\* C24: with the driver queue [AA, NOP, 55] and no agent ever disabled, AA
\* is transferred at the first rising edge, valid is 0 and nothing is
\* transferred at the second, 55 is transferred at the third
C24_NopIsOneCycleBubble ==
    env.toggled = {}
      => /\ EdgeDone(1) => (env.vis.vld = "1" /\ env.recv = <<"AA">>)
         /\ EdgeDone(2) => (env.vis.vld = "0" /\ env.recv = <<"AA">>)
         /\ EdgeDone(3) => (env.vis.vld = "1" /\ env.recv = <<"AA", "55">>)


\* C25: while the callbacks of the evaluation between comb_read and
\* comb_stable are run, the current list is the comb_stable list of the
\* slot, also when no process had asked for comb_stable before; a child
\* which such a callback yields is appended to that list and no exception
\* comes from the append
C25_CallbacksLandInCombStable ==
    [][ /\ pc' = "cb_comb_stable"
             => (curList' = "comb_stable" /\ IsList(cur'.comb_stable))
        /\ (pc = "cb_comb_stable" /\ running = "proc" /\ ev'.k = "Child"
            /\ ev # ev')
             => (/\ pc' = "cb_comb_stable"
                 /\ cur'.comb_stable = Append_(cur.comb_stable, Proc)) ]_vars


\* every item of the slot old is in the same list of the slot new
SlotKept(old, new) ==
    \A ph \in PhaseNames :
       \A i \in 1 .. Len(old[ph].q) :
          /\ IsList(new[ph])
          /\ \E j \in 1 .. Len(new[ph].q) : new[ph].q[j] = old[ph].q[i]

\* C26: no suspended process is lost over the end of a run and the entry
\* of the next one: when a run ends with StopSimulation the slot of the stop
\* instant holds no process which is still to be resumed, and the two pushes
\* at the entry of run() keep every item of every slot of the calendar
C26_ContinuationKeepsPending ==
    [][ /\ (pc = "exit" /\ pc' = "idle" /\ exc.k = "StopSimulation")
             => SlotCount(cur) = 0
        /\ (pc = "idle" /\ pc' = "pop")
             => \A t \in DOMAIN calendar :
                   /\ t \in DOMAIN calendar'
                   /\ SlotKept(calendar[t], calendar'[t]) ]_vars


\* the instant in which the callback loop of the agent a yielded its last
\* instance, -1 before the first one: the value of "start" of that instance
StartOf(a) ==
    LET S == {i \in 1 .. Len(env.cbLog[a]) : env.cbLog[a][i].spawned}
    IN IF S = {} THEN -1
       ELSE env.cbLog[a][CHOOSE i \in S : \A j \in S : j <= i].t

\* C27: every step of an instance of DataRdVldAgent.monitor and of
\* DataRdVldAgent.driver, its return with the assertion start == sim.now
\* included, is taken in the instant in which the instance was started; no
\* instance is live when the time advances, and none when the callback
\* loop yields the next instance of the same agent
C27_InstanceStaysInItsInstant ==
    [][ \A a \in Synced :
          /\ InstanceStep(a) => now = StartOf(a)
          /\ now' # now => env.pos[PidOf.inst[a]] = 0
          /\ (/\ Len(env'.cbLog[a]) > Len(env.cbLog[a])
              /\ env'.cbLog[a][Len(env'.cbLog[a])].spawned)
               => env.pos[PidOf.inst[a]] = 0 ]_vars

\* both agents got their second instance, at the second rising edge, and
\* the monitor instance is resumed for its last step in that instant
C27_Witness ==
    /\ InstanceStep("M")
    /\ env.pos["instM"] = 6
    /\ now = halfPeriod + env.period
    /\ StartOf("M") = now
    /\ StartOf("D") = now
    /\ Len(env.cbLog["M"]) = 2


\* the frame of the character c: the values the line takes, one per bit
\* period: the start bit, the data bits from the least significant one, the
\* stop bit
Frame(c) == <<START_BIT>> \o [i \in 1 .. CharBits |-> DataBit(c, i - 1)]
            \o <<STOP_BIT>>

\* the character the driver was given
Queued == IF env.uart.sent = <<>> THEN Head(env.uart.data)
          ELSE Head(env.uart.sent)

\* C28: the driver writes the frame of its character, the k-th value at
\* half_period + (k - 1) * bit_period while write_only is drained, and holds the
\* stop bit for a bit period; the monitor gives one verdict on the frame,
\* "correctly received", and the character it assembles is the one sent
C28_UartRoundTrip ==
    /\ Len(env.writes) <= CharBits + 2
    /\ \A k \in 1 .. Len(env.writes) :
          /\ env.writes[k].v = Frame(Queued)[k]
          /\ env.writes[k].t = half_period + (k - 1) * bit_period
          /\ env.writes[k].ph = "write_only"
          /\ ~env.writes[k].ro
    /\ (pc = "idle" /\ runNo = 1)
         => /\ result = "returned"
            /\ Len(env.writes) = CharBits + 2
            /\ env.uart.frames # <<>>
    /\ \A k \in 1 .. Len(env.uart.frames) :
          /\ env.uart.frames[k].ok
          /\ env.uart.frames[k].ch = Queued


\* C29: the times of the tuples of the log of the monitor are strictly
\* increasing, and after every observation the last tuple of the log is the
\* instant and the value just observed, the tuples of the earlier instants
\* are as they were and no other tuple is in the log
C29_OneEntryPerInstant ==
    [][ /\ \A i, j \in 1 .. Len(env'.data) :
              i < j => env'.data[i].t < env'.data[j].t
        /\ (InstanceStep("K") /\ env.pos["instK"] = 2)
             => /\ env'.data # <<>>
                /\ env'.data[Len(env'.data)] = [t |-> now, v |-> env.seen]
                /\ SubSeq(env'.data, 1, Len(env'.data) - 1)
                     = SelectSeq(env.data, LAMBDA e : e.t < now) ]_vars

\* the log after two observations in the instant 1: the signal was 0 in the
\* instant 0, then written 1 and, after an evaluation, 0 in the instant 1
C29_Witness ==
    /\ env.data = <<[t |-> 0, v |-> "0"], [t |-> 1, v |-> "0"]>>
    /\ Len(env.writes) = 3
    /\ env.writes[2].t = 1 /\ env.writes[2].v = "1"
    /\ env.writes[3].t = 1 /\ env.writes[3].v = "0"
    /\ env.pos["instK"] = 0

====
